---- MODULE Spec2Model ----
(***************************************************************************)
(* Model of the ELF shared-object emitter of compiler/elf_builder.h:       *)
(* ElfSectionBuilder, ElfDynamicBuilder, ElfRawSectionBuilder,             *)
(* ElfOatSectionBuilder, ElfSymtabBuilder, the ElfFilePiece family and the *)
(* ElfBuilder orchestrator with its Init / Write protocol.                 *)
(*                                                                         *)
(* Strings are sequences of byte values (0 is the NUL terminator).         *)
(* Section builders are named by identifiers ("dynsym", "text", ...); a    *)
(* pointer to a builder is its identifier and nullptr is "none".           *)
(***************************************************************************)
EXTENDS Integers, Sequences, FiniteSets, TLC

VARIABLES
  phase,                  \* position of the caller in the protocol
  cfg,                    \* constructor arguments of ElfBuilder
  fatal_error_,
  sec,                    \* builder id -> [section_ (Elf_Shdr), section_index_]
  other_builders_,        \* registered raw section builders, in order
  section_ptrs_,
  section_index_,
  shstrtab_,
  dynstr_,
  dynstr_soname_offset_,
  hash_,
  dynamics_,              \* dynamic_builder_.dynamics_
  dynsym_symbols_,        \* dynsym_builder_.symbols_
  symtab_symbols_,        \* symtab_builder_.symbols_
  program_headers_,
  elf_header_,
  out_,                   \* the vectors Write materialised (its locals)
  pieces_,                \* the piece list Write built
  file_log,               \* calls issued to the file target and the code producer
  initRet,
  writeRet,
  symbols_,               \* a stand-alone ElfSymtabBuilder: its symbols_
  gen_,                   \* what GenerateHashContents / GenerateStrtab gave for it
  dyn_,                   \* a stand-alone ElfDynamicBuilder (its list is
                          \* dynamics_): the calls made and what they returned
  hashed_                 \* a call of elfhash: its argument and what it returned

vars == <<phase, cfg, fatal_error_, sec, other_builders_, section_ptrs_,
          section_index_, shstrtab_, dynstr_, dynstr_soname_offset_, hash_,
          dynamics_, dynsym_symbols_, symtab_symbols_, program_headers_,
          elf_header_, out_, pieces_, file_log, initRet, writeRet,
          symbols_, gen_, dyn_, hashed_>>

elfVars == <<phase, cfg, fatal_error_, sec, other_builders_, section_ptrs_,
             section_index_, shstrtab_, dynstr_, dynstr_soname_offset_, hash_,
             dynamics_, dynsym_symbols_, symtab_symbols_, program_headers_,
             elf_header_, out_, pieces_, file_log, initRet, writeRet>>

symVars == <<symbols_, gen_>>

\* all but the list and the record of the stand-alone dynamic builder
dynOther == <<phase, cfg, fatal_error_, sec, other_builders_, section_ptrs_,
              section_index_, shstrtab_, dynstr_, dynstr_soname_offset_, hash_,
              dynsym_symbols_, symtab_symbols_, program_headers_, elf_header_,
              out_, pieces_, file_log, initRet, writeRet, symbols_, gen_,
              hashed_>>

----------------------------------------------------------------------------
(* Bounds of the model.                                                    *)

MaxRaw == 2          \* raw sections registered in one run
MaxDebugSyms == 1    \* symbols added to .symtab in one run
MaxSymbols == 4      \* symbols added to the stand-alone symbol table
MaxTags == 3         \* AddDynamicTag calls on the stand-alone dynamic builder
MaxPrefill == 9      \* generated symbols a hashed list starts with: 0..MaxPrefill
MaxExtra == 2        \* symbols with chosen names that follow the generated ones
MaxNameLen == 9      \* bytes of a string given to elfhash

----------------------------------------------------------------------------
(* Strings.                                                                *)

NUL == 0
SLASH == 47

Str_dynsym   == <<46, 100, 121, 110, 115, 121, 109>>
Str_dynstr   == <<46, 100, 121, 110, 115, 116, 114>>
Str_hash     == <<46, 104, 97, 115, 104>>
Str_rodata   == <<46, 114, 111, 100, 97, 116, 97>>
Str_text     == <<46, 116, 101, 120, 116>>
Str_bss      == <<46, 98, 115, 115>>
Str_dynamic  == <<46, 100, 121, 110, 97, 109, 105, 99>>
Str_symtab   == <<46, 115, 121, 109, 116, 97, 98>>
Str_strtab   == <<46, 115, 116, 114, 116, 97, 98>>
Str_shstrtab == <<46, 115, 104, 115, 116, 114, 116, 97, 98>>
Str_eh_frame     == <<46, 101, 104, 95, 102, 114, 97, 109, 101>>
Str_eh_frame_hdr == <<46, 101, 104, 95, 102, 114, 97, 109, 101, 95, 104, 100, 114>>
Str_debug_info   == <<46, 100, 101, 98, 117, 103, 95, 105, 110, 102, 111>>
Str_oatdata        == <<111, 97, 116, 100, 97, 116, 97>>
Str_oatexec        == <<111, 97, 116, 101, 120, 101, 99>>
Str_oatlastword    == <<111, 97, 116, 108, 97, 115, 116, 119, 111, 114, 100>>
Str_oatbss         == <<111, 97, 116, 98, 115, 115>>
Str_oatbsslastword == <<111, 97, 116, 98, 115, 115, 108, 97, 115, 116, 119, 111, 114, 100>>
Str_main           == <<109, 97, 105, 110>>
Path_abs == <<47, 116, 109, 112, 47, 102, 111, 111, 47, 98, 97, 114, 46, 111, 97, 116>>
Path_rel == <<98, 97, 114, 46, 111, 97, 116>>

\* The NUL-terminated string starting at 0-based offset off of tab.
RECURSIVE CStringAt(_, _)
CStringAt(tab, off) ==
  IF off >= Len(tab) \/ tab[off + 1] = NUL THEN <<>>
  ELSE <<tab[off + 1]>> \o CStringAt(tab, off + 1)

\* std::string::rfind('/'): 1-based position of the last '/', 0 for npos.
RECURSIVE RFindSlash(_, _)
RFindSlash(s, i) ==
  IF i = 0 THEN 0
  ELSE IF s[i] = SLASH THEN i
  ELSE RFindSlash(s, i - 1)

----------------------------------------------------------------------------
(* Arithmetic helpers.                                                     *)

kPageSize == 4096

RoundUp(x, n) == ((x + n - 1) \div n) * n

IsAligned(x, n) == x % n = 0

\* xor of two 4-bit values
Xor4(a, b) ==
  LET bit(v, k) == (v \div k) % 2
      x(k) == IF bit(a, k) = bit(b, k) THEN 0 ELSE k
  IN  x(1) + x(2) + x(4) + x(8)

Pow2_24 == 16777216
Pow2_28 == 268435456

\* the high nibble cleared but not folded into bits 4..7
ElfHashStepNoFold(h, c) == ((h % Pow2_24) * 16 + c) % Pow2_28

\* One iteration of the loop of elfhash on a 32-bit unsigned h:
\*   h = (h << 4) + c;  g = h & 0xf0000000;  h ^= g;  h ^= g >> 24;
\* h enters below 2^28, so the 32-bit sum is kept as (hi, lo) with hi its
\* bits 28..31 (wrapping mod 16 = mod 2^32 overall) and lo its bits 0..27.
ElfHashStep(h, c) ==
  LET sum == (h % Pow2_24) * 16 + c
      hi  == ((h \div Pow2_24) + (sum \div Pow2_28)) % 16
      lo  == sum % Pow2_28
      nib == (lo \div 16) % 16
  IN  (lo - nib * 16) + Xor4(nib, hi) * 16

RECURSIVE ElfHashFrom(_, _, _)
ElfHashFrom(name, i, h) ==
  IF i > Len(name) \/ name[i] = NUL THEN h
  ELSE ElfHashFrom(name, i + 1, ElfHashStep(h, name[i]))

elfhash(name) == ElfHashFrom(name, 1, 0)

\* A call of elfhash on its own.  The bytes are unsigned chars: NUL, which
\* ends the string wherever it stands, a letter, and 0xff.
HashedBytes == {NUL, 111, 255}

HashedNone == [name |-> <<>>, done |-> FALSE, h |-> 0]

HashedInputs == UNION {[1..n -> HashedBytes] : n \in 0..MaxNameLen}

ElfhashCall ==
  /\ ~hashed_.done
  /\ hashed_' = [hashed_ EXCEPT !.done = TRUE, !.h = elfhash(hashed_.name)]

MakeStInfo(binding, type) == (binding * 16 + (type % 16)) % 256

----------------------------------------------------------------------------
(* ElfSymtabBuilder.                                                       *)

STB_GLOBAL == 1
STT_OBJECT == 1

\* AddSymbol: the entry appended to symbols_ (CHECK(section) is the
\* caller's guard: section is never "none" here).
AddSymbol(symbols, name, section, addr, is_relative, size, binding, type, other) ==
  Append(symbols,
         [name_ |-> name, section_ |-> section, addr_ |-> addr, size_ |-> size,
          is_relative_ |-> is_relative, info_ |-> MakeStInfo(binding, type),
          other_ |-> other, name_idx_ |-> 0])

\* ElfSymtabBuilder::GetSize: 1 is for the implicit null symbol.
SymtabGetSize(symbols) == Len(symbols) + 1

\* GenerateStrtab: the table after the first k symbols.
RECURSIVE StrtabUpTo(_, _)
StrtabUpTo(symbols, k) ==
  IF k = 0 THEN <<NUL>>
  ELSE StrtabUpTo(symbols, k - 1) \o symbols[k].name_ \o <<NUL>>

GenerateStrtab(symbols) == StrtabUpTo(symbols, Len(symbols))

\* GenerateStrtab's effect on symbols_: it->name_idx_ = tab.size().
StrtabNameIdx(symbols) ==
  [k \in 1..Len(symbols) |->
     [symbols[k] EXCEPT !.name_idx_ = Len(StrtabUpTo(symbols, k - 1))]]

\* always the smallest table
NBucketsNoSteps(n) == 2

\* Number of buckets chosen by GenerateHashContents.
NBuckets(n) ==
  IF n < 8 THEN 2
  ELSE IF n < 32 THEN 4
  ELSE IF n < 256 THEN 16
  ELSE RoundUp(n \div 32, 2)

\* hash is the flat vector <<nbuckets, nchain, bucket[..], chain[..]>>;
\* buckets = hash.data() + 2, chain = hash.data() + 2 + nbuckets.
HashBucket(hash, k) == hash[2 + k + 1]
HashChain(hash, k) == hash[2 + hash[1] + k + 1]

\* The walk to the end of a chain, with its CHECK_LT(hash_val, chain_size):
\* the last cell of the chain, or -1 when a CHECK_LT fails.
ChainWalkNoWalk(hash, chain_size, hash_val) ==
  IF ~(hash_val < chain_size) THEN -1 ELSE hash_val

RECURSIVE ChainWalk(_, _, _)
ChainWalk(hash, chain_size, hash_val) ==
  IF ~(hash_val < chain_size) THEN -1
  ELSE IF HashChain(hash, hash_val) # 0
       THEN ChainWalk(hash, chain_size, HashChain(hash, hash_val))
       ELSE hash_val

\* One iteration of the insertion loop, for symbol i (0-based); aborted is
\* a failed CHECK.
HashInsertOne(symbols, i, hash) ==
  LET nbuckets   == hash[1]
      chain_size == hash[2]
      index      == i + 1
      hash_val   == elfhash(symbols[i + 1].name_) % nbuckets
  IN  IF HashBucket(hash, hash_val) = 0
      THEN [aborted |-> FALSE, hash |-> [hash EXCEPT ![2 + hash_val + 1] = index]]
      ELSE
        LET last == ChainWalk(hash, chain_size, HashBucket(hash, hash_val))
        IN  IF last = -1 THEN [aborted |-> TRUE, hash |-> hash]
            ELSE
              LET h2 == [hash EXCEPT ![2 + nbuckets + last + 1] = index]
              IN  \* CHECK_EQ(chain[index], 0)
                  [aborted |-> HashChain(h2, index) # 0, hash |-> h2]

\* The iterations for symbols lo..hi-1 in order, stopping at a failed CHECK
\* (the range is halved to keep the evaluation shallow).
RECURSIVE HashInsertRange(_, _, _, _)
HashInsertRange(symbols, lo, hi, st) ==
  IF st.aborted \/ lo >= hi THEN st
  ELSE IF hi = lo + 1 THEN HashInsertOne(symbols, lo, st.hash)
  ELSE HashInsertRange(symbols, (lo + hi) \div 2, hi,
                       HashInsertRange(symbols, lo, (lo + hi) \div 2, st))

\* The insertion loop from symbol i (0-based) on.
HashInsertFrom(symbols, i, hash) ==
  HashInsertRange(symbols, i, Len(symbols), [aborted |-> FALSE, hash |-> hash])

GenerateHashContents(symbols) ==
  LET nbuckets   == NBuckets(Len(symbols))
      chain_size == SymtabGetSize(symbols)
      empty      == <<nbuckets, chain_size>> \o
                    [k \in 1..(nbuckets + chain_size) |-> 0]
  IN  HashInsertFrom(symbols, 0, empty)

\* The lookup the table is built for (GetSym of the comment in
\* GenerateHashContents); names are read from the string table at name_idx_.
\* 0 is STN_UNDEF / SYMBOL_NOT_FOUND.
RECURSIVE GetSymFrom(_, _, _, _, _, _)
GetSymFrom(hash, symbols, tab, name, indx, fuel) ==
  IF indx = 0 \/ fuel = 0 \/ indx > Len(symbols) THEN 0
  ELSE IF CStringAt(tab, symbols[indx].name_idx_) = name THEN indx
  ELSE GetSymFrom(hash, symbols, tab, name, HashChain(hash, indx), fuel - 1)

GetSym(hash, symbols, tab, name) ==
  GetSymFrom(hash, symbols, tab, name,
             HashBucket(hash, elfhash(name) % hash[1]), hash[2])

----------------------------------------------------------------------------
(* A symbol table on its own: any sequence of AddSymbol calls, then        *)
(* GenerateStrtab and GenerateHashContents.                                *)

SymNames == {Str_oatdata, Str_oatexec, Str_oatlastword, Str_oatbss,
             Str_oatbsslastword, Str_main}

GenNone == [strtab_done |-> FALSE, strtab |-> <<>>,
            hash_done |-> FALSE, hash_aborted |-> FALSE, hash |-> <<>>]

SymAddSymbol ==
  /\ ~gen_.strtab_done /\ ~gen_.hash_done
  /\ Len(symbols_) < MaxSymbols
  /\ \E name \in SymNames :
       symbols_' = AddSymbol(symbols_, name, "text", 0, TRUE, 4,
                             STB_GLOBAL, STT_OBJECT, 0)
  /\ UNCHANGED gen_

SymGenerateStrtab ==
  /\ ~gen_.strtab_done
  /\ symbols_' = StrtabNameIdx(symbols_)
  /\ gen_' = [gen_ EXCEPT !.strtab_done = TRUE,
                          !.strtab = GenerateStrtab(symbols_)]

SymGenerateHashContents ==
  /\ ~gen_.hash_done
  /\ LET r == GenerateHashContents(symbols_)
     IN  gen_' = [gen_ EXCEPT !.hash_done = TRUE,
                              !.hash_aborted = r.aborted,
                              !.hash = IF r.aborted THEN <<>> ELSE r.hash]
  /\ UNCHANGED symbols_

HasDuplicateName(symbols) ==
  \E i, j \in 1..Len(symbols) : i # j /\ symbols[i].name_ = symbols[j].name_

\* Lists for GenerateHashContents on both sides of each threshold of its
\* bucket selection (8, 32, 256, and a quotient size/32 that is odd): the
\* k-th generated symbol has a two-letter name of its own.
GeneratedName(k) == <<97 + (k % 26), 97 + ((k \div 26) % 26)>>

AddSymbols(n) ==
  [k \in 1..n |-> AddSymbol(<<>>, GeneratedName(k), "text", 0, TRUE, 4,
                            STB_GLOBAL, STT_OBJECT, 0)[1]]

LargeSizes == {30, 31, 254, 255, 256, 288, 320}

ExtraNames == UNION {[1..k -> SymNames] : k \in 0..MaxExtra}

RECURSIVE AddNamed(_, _, _)
AddNamed(symbols, names, k) ==
  IF k > Len(names) THEN symbols
  ELSE AddNamed(AddSymbol(symbols, names[k], "text", 0, TRUE, 4,
                          STB_GLOBAL, STT_OBJECT, 0), names, k + 1)

HashInputs ==
  {AddNamed(AddSymbols(n), names, 1) :
     n \in (0..MaxPrefill) \cup LargeSizes, names \in ExtraNames}

----------------------------------------------------------------------------
(* ElfTypes: record sizes of the ELF32 and ELF64 variants.                 *)

SizeofEhdr(elf64) == IF elf64 THEN 64 ELSE 52
SizeofPhdr(elf64) == IF elf64 THEN 56 ELSE 32
SizeofShdr(elf64) == IF elf64 THEN 64 ELSE 40
SizeofSym(elf64)  == IF elf64 THEN 24 ELSE 16
SizeofDyn(elf64)  == IF elf64 THEN 16 ELSE 8
SizeofWord(elf64) == IF elf64 THEN 4 ELSE 4

\* Positions in program_headers_.
PH_PHDR            == 0
PH_LOAD_R__        == 1
PH_LOAD_R_X        == 2
PH_LOAD_RW_BSS     == 3
PH_LOAD_RW_DYNAMIC == 4
PH_DYNAMIC         == 5
PH_EH_FRAME_HDR    == 6
PH_NUM             == 7

PHDR_OFFSET(elf64) == SizeofEhdr(elf64)
PHDR_SIZE(elf64)   == SizeofPhdr(elf64) * PH_NUM

----------------------------------------------------------------------------
(* Section builders.                                                       *)

\* ElfSectionBuilder's constructor: a zeroed header with the given
\* attributes, section_index_ 0.
ElfSectionBuilder(sec_name, type, flags, link, info, align, entsize) ==
  [name_ |-> sec_name, link_ |-> link, section_index_ |-> 0,
   sh_name |-> 0, sh_type |-> type, sh_flags |-> flags, sh_addr |-> 0,
   sh_offset |-> 0, sh_size |-> 0, sh_link |-> 0, sh_info |-> info,
   sh_addralign |-> align, sh_entsize |-> entsize]

\* ElfDynamicBuilder's constructor: flags are SHF_ALLOC | SHF_ALLOC.
ElfDynamicBuilder(sec_name, link, elf64) ==
  ElfSectionBuilder(sec_name, "SHT_DYNAMIC", {"SHF_ALLOC"} \cup {"SHF_ALLOC"},
                    link, 0, kPageSize, SizeofDyn(elf64))

\* ElfOatSectionBuilder's constructor (size_ is kept beside the header).
ElfOatSectionBuilder(sec_name, size, type, flags) ==
  ElfSectionBuilder(sec_name, type, flags, "none", 0, kPageSize, 0)
    @@ [size_ |-> size]

\* ElfRawSectionBuilder's constructor (buf_size is buf_.size()).
ElfRawSectionBuilder(sec_name, type, flags, link, info, align, entsize, buf_size) ==
  ElfSectionBuilder(sec_name, type, flags, link, info, align, entsize)
    @@ [buf_size |-> buf_size]

\* ElfSymtabBuilder's constructor: the table's own header; strtab_ is the
\* builder StrtabOf(id).
ElfSymtabBuilder(sec_name, type, strtab_id, alloc, elf64) ==
  ElfSectionBuilder(sec_name, type, IF alloc THEN {"SHF_ALLOC"} ELSE {},
                    strtab_id, 0, SizeofWord(elf64), SizeofSym(elf64))

ElfSymtabBuilderStrtab(str_name, str_type, alloc) ==
  ElfSectionBuilder(str_name, str_type, IF alloc THEN {"SHF_ALLOC"} ELSE {},
                    "none", 0, 1, 1)

\* ElfSectionBuilder::GetLink
GetLink(s, id) ==
  IF s[id].link_ # "none" THEN s[s[id].link_].section_index_ ELSE 0

\* The raw sections a caller may register (built by the caller, registered
\* by pointer).  .eh_frame_hdr is built with .eh_frame as its link and an
\* alignment of 8, so that the end of .eh_frame (256 bytes after a multiple
\* of 4) is or is not where .eh_frame_hdr may start, depending on the sizes
\* of the sections before them; .debug_info is built with .shstrtab as its
\* link.
RawIds == {"eh_frame", "eh_frame_hdr", "debug_info"}

RawBuilders ==
  [id \in RawIds |->
     CASE id = "eh_frame" ->
            ElfRawSectionBuilder(Str_eh_frame, "SHT_PROGBITS", {"SHF_ALLOC"},
                                 "none", 0, 4, 0, 256)
       [] id = "eh_frame_hdr" ->
            ElfRawSectionBuilder(Str_eh_frame_hdr, "SHT_PROGBITS", {"SHF_ALLOC"},
                                 "eh_frame", 0, 8, 0, 40)
       [] id = "debug_info" ->
            ElfRawSectionBuilder(Str_debug_info, "SHT_PROGBITS", {},
                                 "shstrtab", 0, 1, 0, 10)]

FixedIds == {"null", "dynsym", "dynstr", "hash", "rodata", "text", "bss",
             "dynamic", "symtab", "strtab", "shstrtab"}

\* The member builders as ElfBuilder's constructor initialises them
\* (null_hdr_ is listed with them; Init zeroes it).
MemberBuilders(c) ==
  [id \in FixedIds |->
     CASE id = "null"    -> ElfSectionBuilder(<<>>, "SHT_NULL", {}, "none", 0, 0, 0)
       [] id = "text"    -> ElfOatSectionBuilder(Str_text, c.text_size, "SHT_PROGBITS",
                                                 {"SHF_ALLOC", "SHF_EXECINSTR"})
       [] id = "rodata"  -> ElfOatSectionBuilder(Str_rodata, c.rodata_size,
                                                 "SHT_PROGBITS", {"SHF_ALLOC"})
       [] id = "bss"     -> ElfOatSectionBuilder(Str_bss, c.bss_size, "SHT_NOBITS",
                                                 {"SHF_ALLOC"})
       [] id = "dynsym"  -> ElfSymtabBuilder(Str_dynsym, "SHT_DYNSYM", "dynstr", TRUE,
                                             c.elf64)
       [] id = "dynstr"  -> ElfSymtabBuilderStrtab(Str_dynstr, "SHT_STRTAB", TRUE)
       [] id = "symtab"  -> ElfSymtabBuilder(Str_symtab, "SHT_SYMTAB", "strtab", FALSE,
                                             c.elf64)
       [] id = "strtab"  -> ElfSymtabBuilderStrtab(Str_strtab, "SHT_STRTAB", FALSE)
       [] id = "hash"    -> ElfSectionBuilder(Str_hash, "SHT_HASH", {"SHF_ALLOC"},
                                              "dynsym", 0, SizeofWord(c.elf64),
                                              SizeofWord(c.elf64))
       [] id = "dynamic" -> ElfDynamicBuilder(Str_dynamic, "dynsym", c.elf64)
       [] id = "shstrtab" -> ElfSectionBuilder(Str_shstrtab, "SHT_STRTAB", {}, "none",
                                               0, 1, 1)]

----------------------------------------------------------------------------
(* ElfDynamicBuilder.                                                      *)

\* DT_NULL not dropped
AddDynamicTagKeepsNull(dynamics, tag, d_un, section) ==
  Append(dynamics, [section_ |-> section, tag_ |-> tag, off_ |-> d_un])

\* AddDynamicTag (both overloads; section is "none" for the first).
AddDynamicTag(dynamics, tag, d_un, section) ==
  IF tag = "DT_NULL" THEN dynamics
  ELSE Append(dynamics, [section_ |-> section, tag_ |-> tag, off_ |-> d_un])

\* ElfDynamicBuilder::GetSize
DynamicGetSize(dynamics) == Len(dynamics) + 3

GetDynamicsNoTerminator(dynamics, s, strsz, soname) ==
  [k \in 1..Len(dynamics) |->
     IF dynamics[k].section_ # "none"
     THEN [d_tag |-> dynamics[k].tag_,
           d_un  |-> dynamics[k].off_ + s[dynamics[k].section_].sh_addr]
     ELSE [d_tag |-> dynamics[k].tag_, d_un |-> dynamics[k].off_]]
  \o <<[d_tag |-> "DT_STRSZ", d_un |-> strsz],
       [d_tag |-> "DT_SONAME", d_un |-> soname],
       [d_tag |-> "DT_SONAME", d_un |-> 0]>>

\* ElfDynamicBuilder::GetDynamics
GetDynamics(dynamics, s, strsz, soname) ==
  [k \in 1..Len(dynamics) |->
     IF dynamics[k].section_ # "none"
     THEN [d_tag |-> dynamics[k].tag_,
           d_un  |-> dynamics[k].off_ + s[dynamics[k].section_].sh_addr]
     ELSE [d_tag |-> dynamics[k].tag_, d_un |-> dynamics[k].off_]]
  \o <<[d_tag |-> "DT_STRSZ", d_un |-> strsz],
       [d_tag |-> "DT_SONAME", d_un |-> soname],
       [d_tag |-> "DT_NULL", d_un |-> 0]>>

----------------------------------------------------------------------------
(* A dynamic builder on its own: any sequence of AddDynamicTag calls, then *)
(* GetSize as Init calls it to fix sh_size, then GetDynamics as Write      *)
(* calls it.                                                               *)

DynTags == {"DT_NULL", "DT_NEEDED", "DT_HASH"}

DynNone == [calls |-> 0, accepted |-> 0, size_done |-> FALSE, sh_size |-> 0,
            vec_done |-> FALSE, vec |-> <<>>]

\* AddDynamicTag(tag, d_un) and AddDynamicTag(tag, d_un, section); accepted
\* counts the calls whose tag is not DT_NULL.
DynAddDynamicTag ==
  /\ ~dyn_.size_done
  /\ dyn_.calls < MaxTags
  /\ \E tag \in DynTags, d_un \in {0, 8}, section \in {"none", "hash"} :
       /\ dynamics_' = AddDynamicTag(dynamics_, tag, d_un, section)
       /\ dyn_' = [dyn_ EXCEPT !.calls = @ + 1,
                               !.accepted = IF tag # "DT_NULL" THEN @ + 1 ELSE @]
  /\ UNCHANGED dynOther

\* sh_size = GetSize() * sizeof(Elf_Dyn), as Init stores it.
DynGetSize ==
  /\ ~dyn_.size_done
  /\ dyn_' = [dyn_ EXCEPT !.size_done = TRUE,
                          !.sh_size = DynamicGetSize(dynamics_) * SizeofDyn(cfg.elf64)]
  /\ UNCHANGED <<dynamics_, dynOther>>

\* GetDynamics(strsz, soname), as Write calls it.
DynGetDynamics ==
  /\ dyn_.size_done /\ ~dyn_.vec_done
  /\ \E strsz \in {37, 59} :
       dyn_' = [dyn_ EXCEPT !.vec_done = TRUE,
                           !.vec = GetDynamics(dynamics_, sec, strsz, strsz - 8)]
  /\ UNCHANGED <<dynamics_, dynOther>>

\* the section's offset not added to a relative symbol
GenerateSymtabAbsolute(symbols, s) ==
  <<[st_name |-> 0, st_value |-> 0, st_size |-> 0, st_other |-> 0,
     st_shndx |-> 0, st_info |-> 0]>>
  \o [k \in 1..Len(symbols) |->
        [st_name  |-> symbols[k].name_idx_,
         st_value |-> symbols[k].addr_,
         st_size  |-> symbols[k].size_,
         st_other |-> symbols[k].other_,
         st_shndx |-> s[symbols[k].section_].section_index_,
         st_info  |-> symbols[k].info_]]

\* ElfSymtabBuilder::GenerateSymtab (the sums of this model stay far below
\* the width of Elf_Addr).
GenerateSymtab(symbols, s) ==
  <<[st_name |-> 0, st_value |-> 0, st_size |-> 0, st_other |-> 0,
     st_shndx |-> 0, st_info |-> 0]>>
  \o [k \in 1..Len(symbols) |->
        [st_name  |-> symbols[k].name_idx_,
         st_value |-> IF symbols[k].is_relative_
                      THEN symbols[k].addr_ + s[symbols[k].section_].sh_offset
                      ELSE symbols[k].addr_,
         st_size  |-> symbols[k].size_,
         st_other |-> symbols[k].other_,
         st_shndx |-> s[symbols[k].section_].section_index_,
         st_info  |-> symbols[k].info_]]

----------------------------------------------------------------------------
(* ElfBuilder: construction.                                               *)

\* SetISA: e_machine, e_flags and whether the fatal flag is latched.
SetISA(isa) ==
  CASE isa \in {"kArm", "kThumb2"} ->
         [e_machine |-> "EM_ARM", e_flags |-> {"EF_ARM_EABI_VER5"}, fatal |-> FALSE]
    [] isa = "kArm64" ->
         [e_machine |-> "EM_AARCH64", e_flags |-> {}, fatal |-> FALSE]
    [] isa = "kX86" ->
         [e_machine |-> "EM_386", e_flags |-> {}, fatal |-> FALSE]
    [] isa = "kX86_64" ->
         [e_machine |-> "EM_X86_64", e_flags |-> {}, fatal |-> FALSE]
    [] isa = "kMips" ->
         [e_machine |-> "EM_MIPS",
          e_flags |-> {"EF_MIPS_NOREORDER", "EF_MIPS_PIC", "EF_MIPS_CPIC",
                       "EF_MIPS_ABI_O32", "EF_MIPS_ARCH_32R2"}, fatal |-> FALSE]
    [] isa = "kMips64" ->
         [e_machine |-> "EM_MIPS",
          e_flags |-> {"EF_MIPS_NOREORDER", "EF_MIPS_PIC", "EF_MIPS_CPIC",
                       "EF_MIPS_ARCH_64R6"}, fatal |-> FALSE]
    [] OTHER ->
         \* memset left e_machine and e_flags zero
         [e_machine |-> "EM_NONE", e_flags |-> {}, fatal |-> TRUE]

\* SetupEhdr followed by SetISA: elf_header_ after construction.
SetupEhdr(c) ==
  [e_ident_mag |-> <<127, 69, 76, 70>>,
   e_ident_class |-> IF c.elf64 THEN "ELFCLASS64" ELSE "ELFCLASS32",
   e_ident_data |-> "ELFDATA2LSB", e_ident_version |-> 1,
   e_ident_osabi |-> "ELFOSABI_LINUX", e_ident_abiversion |-> 0,
   e_type |-> "ET_DYN", e_version |-> 1, e_entry |-> 0,
   e_machine |-> SetISA(c.isa).e_machine, e_flags |-> SetISA(c.isa).e_flags,
   e_ehsize |-> SizeofEhdr(c.elf64), e_phentsize |-> SizeofPhdr(c.elf64),
   e_shentsize |-> SizeofShdr(c.elf64), e_phoff |-> SizeofEhdr(c.elf64),
   e_shoff |-> 0, e_phnum |-> 0, e_shnum |-> 0, e_shstrndx |-> 0]

\* the three tags not tied to their sections
SetupDynamicNoSections(c) ==
  AddDynamicTag(
    AddDynamicTag(
      AddDynamicTag(
        AddDynamicTag(<<>>, "DT_HASH", 0, "none"),
        "DT_STRTAB", 0, "none"),
      "DT_SYMTAB", 0, "none"),
    "DT_SYMENT", SizeofSym(c.elf64), "none")

\* SetupDynamic
SetupDynamic(c) ==
  AddDynamicTag(
    AddDynamicTag(
      AddDynamicTag(
        AddDynamicTag(<<>>, "DT_HASH", 0, "hash"),
        "DT_STRTAB", 0, "dynstr"),
      "DT_SYMTAB", 0, "dynsym"),
    "DT_SYMENT", SizeofSym(c.elf64), "none")

\* SetupRequiredSymbols (the sizes of this model are at least 4, so the
\* unsigned size - 4 does not wrap).
SetupRequiredSymbols(c) ==
  LET s1 == AddSymbol(<<>>, Str_oatdata, "rodata", 0, TRUE, c.rodata_size,
                      STB_GLOBAL, STT_OBJECT, 0)
      s2 == AddSymbol(s1, Str_oatexec, "text", 0, TRUE, c.text_size,
                      STB_GLOBAL, STT_OBJECT, 0)
      s3 == AddSymbol(s2, Str_oatlastword, "text", c.text_size - 4, TRUE, 4,
                      STB_GLOBAL, STT_OBJECT, 0)
      s4 == AddSymbol(s3, Str_oatbss, "bss", 0, TRUE, c.bss_size,
                      STB_GLOBAL, STT_OBJECT, 0)
      s5 == AddSymbol(s4, Str_oatbsslastword, "bss", c.bss_size - 4, TRUE, 4,
                      STB_GLOBAL, STT_OBJECT, 0)
  IN  IF c.bss_size # 0 THEN s5 ELSE s3

\* The constructor arguments explored.
Configs ==
  [isa : {"kArm64", "kMips", "kNone"},
   elf64 : BOOLEAN,
   rodata_size : {4096, 100},
   text_size : {8192, 12},
   bss_size : {0, 4096, 100},
   add_symbols : BOOLEAN,
   path : {Path_abs, Path_rel}]

ZeroPhdr == [p_type |-> "PT_NULL", p_offset |-> 0, p_vaddr |-> 0, p_paddr |-> 0,
             p_filesz |-> 0, p_memsz |-> 0, p_flags |-> {}, p_align |-> 0]

\* The state after ElfBuilder's constructor.  section_index_,
\* dynstr_soname_offset_ and program_headers_ are not initialised by it; no
\* path of the model reads them before Init has set them.  SetISA logs
\* LOG(FATAL) for an unknown ISA after latching fatal_error_: the process
\* either dies there or goes on with the flag latched.
ElfInit ==
  /\ cfg \in Configs
  /\ fatal_error_ = SetISA(cfg.isa).fatal
  /\ phase \in IF fatal_error_ THEN {"constructed", "aborted"} ELSE {"constructed"}
  /\ sec = MemberBuilders(cfg) @@ RawBuilders
  /\ other_builders_ = <<>>
  /\ section_ptrs_ = <<>>
  /\ section_index_ = 0
  /\ shstrtab_ = <<>>
  /\ dynstr_ = <<>>
  /\ dynstr_soname_offset_ = 0
  /\ hash_ = <<>>
  /\ dynamics_ = SetupDynamic(cfg)
  /\ dynsym_symbols_ = SetupRequiredSymbols(cfg)
  /\ symtab_symbols_ = <<>>
  /\ program_headers_ = [k \in 0..(PH_NUM - 1) |-> ZeroPhdr]
  /\ elf_header_ = SetupEhdr(cfg)
  /\ out_ = [written |-> FALSE]
  /\ pieces_ = <<>>
  /\ file_log = <<>>
  /\ initRet = "none"
  /\ writeRet = "none"

----------------------------------------------------------------------------
(* ElfBuilder::Init.                                                       *)

\* the size of the previous section not added
NextOffsetNoSize(cur, prev) == RoundUp(prev.sh_offset, cur.sh_addralign)

NextOffset(cur, prev) == RoundUp(prev.sh_size + prev.sh_offset, cur.sh_addralign)

\* sh_name taken after the name was appended
AssignSectionStrAfter(st, id) ==
  [st EXCEPT !.sec[id].sh_name = Len(st.shstrtab_ \o st.sec[id].name_ \o <<NUL>>),
             !.shstrtab_ = st.shstrtab_ \o st.sec[id].name_ \o <<NUL>>]

\* AssignSectionStr: sh_name is the current size of the string table, to
\* which the name and a NUL are appended.  st carries sec, shstrtab_,
\* section_ptrs_ and section_index_.
AssignSectionStr(st, id) ==
  [st EXCEPT !.sec[id].sh_name = Len(st.shstrtab_),
             !.shstrtab_ = st.shstrtab_ \o st.sec[id].name_ \o <<NUL>>]

\* section_index_++ forgotten
SetupSectionNoIncrement(st, id) ==
  LET a == AssignSectionStr(st, id)
  IN  [a EXCEPT !.section_ptrs_ = Append(st.section_ptrs_, id),
                !.sec[id].section_index_ = st.section_index_]

\* The four statements repeated for each section: push_back on
\* section_ptrs_, AssignSectionStr, SetSectionIndex, section_index_++.
SetupSection(st, id) ==
  LET a == AssignSectionStr(st, id)
  IN  [a EXCEPT !.section_ptrs_ = Append(st.section_ptrs_, id),
                !.sec[id].section_index_ = st.section_index_,
                !.section_index_ = st.section_index_ + 1]

RECURSIVE SetupSections(_, _)
SetupSections(st, ids) ==
  IF ids = <<>> THEN st
  ELSE SetupSections(SetupSection(st, Head(ids)), Tail(ids))

InitSectionOrderBssAlways(c) ==
  <<"dynsym", "dynstr", "hash", "rodata", "text", "bss", "dynamic">>

\* The sections Init gives an index, in order.
InitSectionOrder(c) ==
  <<"dynsym", "dynstr", "hash", "rodata", "text">>
  \o (IF c.bss_size # 0 THEN <<"bss">> ELSE <<>>)
  \o <<"dynamic">>

\* Init, "Setup sym_undef" to "Setup .dynamic".
InitSetupSections(s, strtab, c) ==
  LET st0 == [sec |-> [s EXCEPT !["null"] =
                         ElfSectionBuilder(<<>>, "SHT_NULL", {}, "none", 0, 0, 0)],
              shstrtab_ |-> strtab \o <<NUL>>,
              section_ptrs_ |-> <<"null">>,
              section_index_ |-> 1]
  IN  SetupSections(st0, InitSectionOrder(c))

\* The program header template of Init.
InitProgramHeaders(c) ==
  [k \in 0..(PH_NUM - 1) |->
     CASE k = PH_PHDR ->
            [ZeroPhdr EXCEPT !.p_type = "PT_PHDR", !.p_offset = PHDR_OFFSET(c.elf64),
                             !.p_vaddr = PHDR_OFFSET(c.elf64),
                             !.p_paddr = PHDR_OFFSET(c.elf64),
                             !.p_filesz = PHDR_SIZE(c.elf64),
                             !.p_memsz = PHDR_SIZE(c.elf64),
                             !.p_flags = {"PF_R"}, !.p_align = SizeofWord(c.elf64)]
       [] k = PH_LOAD_R__ ->
            [ZeroPhdr EXCEPT !.p_type = "PT_LOAD", !.p_flags = {"PF_R"}]
       [] k = PH_LOAD_R_X ->
            [ZeroPhdr EXCEPT !.p_type = "PT_LOAD", !.p_flags = {"PF_R", "PF_X"}]
       [] k = PH_LOAD_RW_BSS ->
            [ZeroPhdr EXCEPT !.p_type = "PT_LOAD", !.p_flags = {"PF_R", "PF_W"}]
       [] k = PH_LOAD_RW_DYNAMIC ->
            [ZeroPhdr EXCEPT !.p_type = "PT_LOAD", !.p_flags = {"PF_R", "PF_W"}]
       [] k = PH_DYNAMIC ->
            [ZeroPhdr EXCEPT !.p_type = "PT_DYNAMIC", !.p_flags = {"PF_R", "PF_W"}]
       [] k = PH_EH_FRAME_HDR ->
            [ZeroPhdr EXCEPT !.p_type = "PT_NULL", !.p_flags = {"PF_R"}]]

\* the directory not stripped
SonameOfWholePath(path) == path

\* The SONAME: the path after its last '/'.
SonameOf(path) ==
  LET pos == RFindSlash(path, Len(path))
  IN  IF pos # 0 THEN SubSeq(path, pos + 1, Len(path)) ELSE path

\* One section laid out after prev, as each block of Init does:
\* sh_offset = NextOffset, sh_addr = sh_offset, sh_size, sh_link = GetLink.
LayoutAllocNoAddr(s, id, prev, size) ==
  [s EXCEPT ![id].sh_offset = NextOffset(s[id], s[prev]),
            ![id].sh_addr = 0,
            ![id].sh_size = size,
            ![id].sh_link = GetLink(s, id)]

LayoutAlloc(s, id, prev, size) ==
  [s EXCEPT ![id].sh_offset = NextOffset(s[id], s[prev]),
            ![id].sh_addr = NextOffset(s[id], s[prev]),
            ![id].sh_size = size,
            ![id].sh_link = GetLink(s, id)]

IsAlloc(s, id) == "SHF_ALLOC" \in s[id].sh_flags

\* The loop of Init over other_builders_: r.sec is the headers, r.prev the
\* last section placed.
RECURSIVE LayoutAllocRaw(_, _, _)
LayoutAllocRaw(s, prev, builders) ==
  IF builders = <<>> THEN [sec |-> s, prev |-> prev]
  ELSE LET it == Head(builders)
       IN  IF IsAlloc(s, it)
           THEN LayoutAllocRaw(LayoutAlloc(s, it, prev, s[it].buf_size), it,
                               Tail(builders))
           ELSE LayoutAllocRaw(s, prev, Tail(builders))

\* the page check on the end of .rodata left out
InitChecksBssOnly(s) ==
  IsAligned(s["bss"].sh_offset, s["dynamic"].sh_addralign)

\* CHECK_ALIGNED on the end of .rodata and CHECK(IsAlignedParam(...)) on the
\* offset of .bss (no later statement of Init changes what they read).
InitChecks(s) ==
  /\ IsAligned(s["rodata"].sh_offset + s["rodata"].sh_size, kPageSize)
  /\ IsAligned(s["bss"].sh_offset, s["dynamic"].sh_addralign)

\* Init, "Get the layout in the sections" to the layout of .dynamic.
\* aligned is the outcome of the two alignment CHECKs.  The two DCHECK_NE on
\* .eh_frame / .eh_frame_hdr cannot fail here: both builders of RawBuilders
\* carry SHF_ALLOC, so one that FindRawSection finds has just been placed
\* after .hash.
InitLayout(s, c, dynsym_count, dynstr_size, hash_size, dynamic_count, builders) ==
  LET base_offset == SizeofEhdr(c.elf64) + PHDR_SIZE(c.elf64)
      s1 == [s EXCEPT
               !["dynsym"].sh_offset = RoundUp(base_offset, s["dynsym"].sh_addralign),
               !["dynsym"].sh_addr = RoundUp(base_offset, s["dynsym"].sh_addralign),
               !["dynsym"].sh_size = dynsym_count * SizeofSym(c.elf64),
               !["dynsym"].sh_link = GetLink(s, "dynsym")]
      s2 == LayoutAlloc(s1, "dynstr", "dynsym", dynstr_size)
      s3 == LayoutAlloc(s2, "hash", "dynstr", hash_size * SizeofWord(c.elf64))
      r  == LayoutAllocRaw(s3, "hash", builders)
      s4 == LayoutAlloc(r.sec, "rodata", r.prev, r.sec["rodata"].size_)
      s5 == LayoutAlloc(s4, "text", "rodata", s4["text"].size_)
      s6 == LayoutAlloc(s5, "bss", "text", s5["bss"].size_)
      s7 == [s6 EXCEPT
               !["dynamic"].sh_offset = s6["bss"].sh_offset,
               !["dynamic"].sh_addr = NextOffset(s6["dynamic"], s6["bss"]),
               !["dynamic"].sh_size = dynamic_count * SizeofDyn(c.elf64),
               !["dynamic"].sh_link = GetLink(s6, "dynamic")]
  IN  [sec |-> s7, aligned |-> InitChecks(s7)]

Init ==
  /\ phase = "constructed"
  /\ IF fatal_error_
     THEN /\ phase' = "init_failed"
          /\ initRet' = "false"
          /\ UNCHANGED <<sec, section_ptrs_, section_index_, shstrtab_, dynstr_,
                         dynstr_soname_offset_, hash_, dynsym_symbols_,
                         program_headers_>>
     ELSE \E tab \in {GenerateStrtab(dynsym_symbols_)} :
          \E syms \in {StrtabNameIdx(dynsym_symbols_)} :
          \E dstr \in {tab \o SonameOf(cfg.path) \o <<NUL>>} :
          \E st \in {InitSetupSections([sec EXCEPT !["dynstr"].sh_size = Len(tab)],
                                       shstrtab_, cfg)} :
          \E h \in {GenerateHashContents(syms)} :
          \E lay \in {InitLayout(st.sec, cfg, SymtabGetSize(syms), Len(dstr),
                                 Len(h.hash), DynamicGetSize(dynamics_),
                                 other_builders_)} :
            IF h.aborted \/ ~lay.aligned
            THEN \* a CHECK failed
                 /\ phase' = "aborted"
                 /\ UNCHANGED <<sec, section_ptrs_, section_index_, shstrtab_,
                                dynstr_, dynstr_soname_offset_, hash_,
                                dynsym_symbols_, program_headers_, initRet>>
            ELSE /\ phase' = "inited"
                 /\ initRet' = "true"
                 /\ program_headers_' = InitProgramHeaders(cfg)
                 /\ dynstr_' = dstr
                 /\ dynstr_soname_offset_' = Len(tab)
                 /\ dynsym_symbols_' = syms
                 /\ shstrtab_' = st.shstrtab_
                 /\ section_ptrs_' = st.section_ptrs_
                 /\ section_index_' = st.section_index_
                 /\ hash_' = h.hash
                 /\ sec' = lay.sec
  /\ UNCHANGED <<cfg, fatal_error_, other_builders_, dynamics_, symtab_symbols_,
                 elf_header_, out_, pieces_, file_log, writeRet, symbols_, gen_,
                 dyn_, hashed_>>

\* RegisterRawSection: push_back of the builder's pointer.
RegisterRawSection ==
  /\ phase \in {"constructed", "inited"}
  /\ Len(other_builders_) < MaxRaw
  /\ \E bld \in RawIds :
       /\ \A k \in 1..Len(other_builders_) : other_builders_[k] # bld
       /\ other_builders_' = Append(other_builders_, bld)
  /\ UNCHANGED <<phase, cfg, fatal_error_, sec, section_ptrs_, section_index_,
                 shstrtab_, dynstr_, dynstr_soname_offset_, hash_, dynamics_,
                 dynsym_symbols_, symtab_symbols_, program_headers_, elf_header_,
                 out_, pieces_, file_log, initRet, writeRet, symbols_, gen_,
                 dyn_, hashed_>>

\* GetSymtabBuilder()->AddSymbol(...): a debug symbol of .text.
AddDebugSymbol ==
  /\ phase \in {"constructed", "inited"}
  /\ Len(symtab_symbols_) < MaxDebugSyms
  /\ symtab_symbols_' = AddSymbol(symtab_symbols_, Str_main, "text", 4, TRUE, 8,
                                  STB_GLOBAL, STT_OBJECT, 0)
  /\ UNCHANGED <<phase, cfg, fatal_error_, sec, other_builders_, section_ptrs_,
                 section_index_, shstrtab_, dynstr_, dynstr_soname_offset_, hash_,
                 dynamics_, dynsym_symbols_, program_headers_, elf_header_,
                 out_, pieces_, file_log, initRet, writeRet, symbols_, gen_,
                 dyn_, hashed_>>

----------------------------------------------------------------------------
(* ElfBuilder::Write.                                                      *)

IncludingDebugSymbols(c, symbols) ==
  c.add_symbols /\ SymtabGetSize(symbols) > 1

WriteSectionOrderTwice(c, symbols, builders) ==
  (IF IncludingDebugSymbols(c, symbols) THEN <<"symtab", "strtab">> ELSE <<>>)
  \o builders \o <<"shstrtab", "shstrtab">>

\* The sections Write gives an index, in order.
WriteSectionOrder(c, symbols, builders) ==
  (IF IncludingDebugSymbols(c, symbols) THEN <<"symtab", "strtab">> ELSE <<>>)
  \o builders \o <<"shstrtab">>

\* the section put where the previous one starts
LayoutNonAllocNoAdvance(s, id, prev, size) ==
  [s EXCEPT ![id].sh_offset = s[prev].sh_offset,
            ![id].sh_addr = 0,
            ![id].sh_size = size,
            ![id].sh_link = GetLink(s, id)]

\* A section without SHF_ALLOC laid out after prev: sh_addr is 0.
LayoutNonAlloc(s, id, prev, size) ==
  [s EXCEPT ![id].sh_offset = NextOffset(s[id], s[prev]),
            ![id].sh_addr = 0,
            ![id].sh_size = size,
            ![id].sh_link = GetLink(s, id)]

\* every raw section laid out again, whatever its flags
RECURSIVE LayoutNonAllocRawAll(_, _, _)
LayoutNonAllocRawAll(s, prev, builders) ==
  IF builders = <<>> THEN [sec |-> s, prev |-> prev]
  ELSE LET it == Head(builders)
       IN  LayoutNonAllocRawAll(LayoutNonAlloc(s, it, prev, s[it].buf_size), it,
                                Tail(builders))

\* The loop of Write over other_builders_.
RECURSIVE LayoutNonAllocRaw(_, _, _)
LayoutNonAllocRaw(s, prev, builders) ==
  IF builders = <<>> THEN [sec |-> s, prev |-> prev]
  ELSE LET it == Head(builders)
       IN  IF ~IsAlloc(s, it)
           THEN LayoutNonAllocRaw(LayoutNonAlloc(s, it, prev, s[it].buf_size), it,
                                  Tail(builders))
           ELSE LayoutNonAllocRaw(s, prev, Tail(builders))

\* Write, "Get the layout of the symtab section" to the layout of .shstrtab.
WriteLayout(s, c, symbols, strtab_size, shstrtab_size, builders) ==
  LET dbg == IncludingDebugSymbols(c, symbols)
      s1  == IF dbg
             THEN LayoutNonAlloc(s, "symtab", "dynamic",
                                 SymtabGetSize(symbols) * SizeofSym(c.elf64))
             ELSE s
      s2  == IF dbg THEN LayoutNonAlloc(s1, "strtab", "symtab", strtab_size) ELSE s1
      r   == LayoutNonAllocRaw(s2, IF dbg THEN "strtab" ELSE "dynamic", builders)
  IN  LayoutNonAlloc(r.sec, "shstrtab", r.prev, shstrtab_size)

\* FindRawSection: the first registered builder of that name, or "none".
RECURSIVE FindRawSection(_, _, _)
FindRawSection(s, builders, name) ==
  IF builders = <<>> THEN "none"
  ELSE IF s[Head(builders)].name_ = name THEN Head(builders)
  ELSE FindRawSection(s, Tail(builders), name)

\* Write, "Finish setup of the program headers".
WriteProgramHeaders(ph, s, builders) ==
  LET load_r_size  == s["rodata"].sh_offset + s["rodata"].sh_size
      eh_frame_hdr == FindRawSection(s, builders, Str_eh_frame_hdr)
  IN  [k \in 0..(PH_NUM - 1) |->
         CASE k = PH_LOAD_R__ ->
                [ph[k] EXCEPT !.p_filesz = load_r_size, !.p_memsz = load_r_size,
                              !.p_align = s["rodata"].sh_addralign]
           [] k = PH_LOAD_R_X ->
                [ph[k] EXCEPT !.p_offset = s["text"].sh_offset,
                              !.p_vaddr = s["text"].sh_offset,
                              !.p_paddr = s["text"].sh_offset,
                              !.p_filesz = s["text"].sh_size,
                              !.p_memsz = s["text"].sh_size,
                              !.p_align = s["text"].sh_addralign]
           [] k = PH_LOAD_RW_BSS ->
                [ph[k] EXCEPT !.p_offset = s["bss"].sh_offset,
                              !.p_vaddr = s["bss"].sh_offset,
                              !.p_paddr = s["bss"].sh_offset,
                              !.p_filesz = 0,
                              !.p_memsz = s["bss"].sh_size,
                              !.p_align = s["bss"].sh_addralign]
           [] k \in {PH_LOAD_RW_DYNAMIC, PH_DYNAMIC} ->
                [ph[k] EXCEPT !.p_offset = s["dynamic"].sh_offset,
                              !.p_vaddr = s["dynamic"].sh_addr,
                              !.p_paddr = s["dynamic"].sh_addr,
                              !.p_filesz = s["dynamic"].sh_size,
                              !.p_memsz = s["dynamic"].sh_size,
                              !.p_align = s["dynamic"].sh_addralign]
           [] k = PH_EH_FRAME_HDR /\ eh_frame_hdr # "none" ->
                [ph[k] EXCEPT !.p_type = "PT_GNU_EH_FRAME",
                              !.p_offset = s[eh_frame_hdr].sh_offset,
                              !.p_vaddr = s[eh_frame_hdr].sh_addr,
                              !.p_paddr = s[eh_frame_hdr].sh_addr,
                              !.p_filesz = s[eh_frame_hdr].sh_size,
                              !.p_memsz = s[eh_frame_hdr].sh_size,
                              !.p_align = s[eh_frame_hdr].sh_addralign]
           [] OTHER -> ph[k]]

\* the CHECK_EQ on the gap left out
EhFrameChecksNoGap(s, builders) ==
  LET eh_frame_hdr == FindRawSection(s, builders, Str_eh_frame_hdr)
      eh_frame     == FindRawSection(s, builders, Str_eh_frame)
  IN  eh_frame_hdr # "none" =>
        /\ eh_frame # "none"
        /\ s[eh_frame].sh_offset <= s[eh_frame_hdr].sh_offset

\* The three CHECKs of Write on .eh_frame / .eh_frame_hdr.
EhFrameChecks(s, builders) ==
  LET eh_frame_hdr == FindRawSection(s, builders, Str_eh_frame_hdr)
      eh_frame     == FindRawSection(s, builders, Str_eh_frame)
  IN  eh_frame_hdr # "none" =>
        /\ eh_frame # "none"
        /\ s[eh_frame].sh_offset <= s[eh_frame_hdr].sh_offset
        /\ s[eh_frame].sh_offset + s[eh_frame].sh_size = s[eh_frame_hdr].sh_offset

\* the bss segment forgotten
EPhnumNoBss(bss_sh_size) == IF bss_sh_size # 0 THEN PH_NUM - 1 ELSE PH_NUM - 1

\* e_phnum as Write sets it.
EPhnum(bss_sh_size) == IF bss_sh_size # 0 THEN PH_NUM ELSE PH_NUM - 1

\* Write, "Finish setup of the Ehdr values".
WriteEhdr(eh, c, s, sections_offset, ptrs) ==
  [eh EXCEPT !.e_phoff = PHDR_OFFSET(c.elf64),
             !.e_shoff = sections_offset,
             !.e_phnum = EPhnum(s["bss"].sh_size),
             !.e_shnum = Len(ptrs),
             !.e_shstrndx = s["shstrtab"].section_index_]

MemoryPiece(name, offset, data, size) ==
  [kind |-> "memory", dbg_name_ |-> name, offset_ |-> offset, data_ |-> data,
   size_ |-> size]

\* The Elf_Shdr of a builder: what a section table piece points at.
ShdrOf(b) ==
  [sh_name |-> b.sh_name, sh_type |-> b.sh_type, sh_flags |-> b.sh_flags,
   sh_addr |-> b.sh_addr, sh_offset |-> b.sh_offset, sh_size |-> b.sh_size,
   sh_link |-> b.sh_link, sh_info |-> b.sh_info,
   sh_addralign |-> b.sh_addralign, sh_entsize |-> b.sh_entsize]

\* the first e_phnum slots in one piece, the unused slot not skipped
ProgramHeaderPiecesNoSkip(c, s, eh, ph) ==
  <<MemoryPiece("Program headers", PHDR_OFFSET(c.elf64),
                [k \in 1..eh.e_phnum |-> ph[k - 1]],
                eh.e_phnum * SizeofPhdr(c.elf64))>>

\* Write, the pieces of the program headers: one piece of e_phnum entries,
\* or two pieces around the skipped PH_LOAD_RW_BSS when .bss is empty.
ProgramHeaderPieces(c, s, eh, ph) ==
  LET phsz == SizeofPhdr(c.elf64)
      part1_size == PH_LOAD_RW_BSS * phsz
      part2_size == (PH_NUM - PH_LOAD_RW_BSS - 1) * phsz
  IN  IF s["bss"].sh_size # 0
      THEN <<MemoryPiece("Program headers", PHDR_OFFSET(c.elf64),
                         [k \in 1..eh.e_phnum |-> ph[k - 1]],
                         eh.e_phnum * phsz)>>
      ELSE <<MemoryPiece("Program headers", PHDR_OFFSET(c.elf64),
                         [k \in 1..PH_LOAD_RW_BSS |-> ph[k - 1]], part1_size),
             MemoryPiece("Program headers part 2",
                         PHDR_OFFSET(c.elf64) + part1_size,
                         [k \in 1..(PH_NUM - PH_LOAD_RW_BSS - 1) |->
                            ph[PH_LOAD_RW_BSS + k]],
                         part2_size)>>

\* Write, "Add the rest of the pieces to the list" to "Postponed debug
\* info": the piece list in push_back order.  w carries the locals of Write.
WritePieces(c, s, eh, ph, w, ptrs, builders) ==
      <<MemoryPiece("Elf Header", 0, eh, SizeofEhdr(c.elf64))>>
      \o ProgramHeaderPieces(c, s, eh, ph)
      \o <<MemoryPiece(".dynamic", s["dynamic"].sh_offset, w.dynamic,
                       s["dynamic"].sh_size),
           MemoryPiece(".dynsym", s["dynsym"].sh_offset, w.dynsym,
                       Len(w.dynsym) * SizeofSym(c.elf64)),
           MemoryPiece(".dynstr", s["dynstr"].sh_offset, w.dynstr, Len(w.dynstr)),
           MemoryPiece(".hash", s["hash"].sh_offset, w.hash,
                       Len(w.hash) * SizeofWord(c.elf64)),
           [kind |-> "rodata", dbg_name_ |-> ".rodata",
            offset_ |-> s["rodata"].sh_offset, data_ |-> <<>>, size_ |-> 0],
           [kind |-> "text", dbg_name_ |-> ".text",
            offset_ |-> s["text"].sh_offset, data_ |-> <<>>, size_ |-> 0]>>
      \o (IF w.debug
          THEN <<MemoryPiece(".symtab", s["symtab"].sh_offset, w.symtab,
                             Len(w.symtab) * SizeofSym(c.elf64)),
                 MemoryPiece(".strtab", s["strtab"].sh_offset, w.strtab,
                             Len(w.strtab))>>
          ELSE <<>>)
      \o <<MemoryPiece(".shstrtab", s["shstrtab"].sh_offset, w.shstrtab,
                       Len(w.shstrtab))>>
      \o [i \in 1..Len(ptrs) |->
            MemoryPiece("section table piece",
                        w.sections_offset + (i - 1) * SizeofShdr(c.elf64),
                        ShdrOf(s[ptrs[i]]), SizeofShdr(c.elf64))]
      \* it->GetName() is given by the builder's identifier
      \o [i \in 1..Len(builders) |->
            MemoryPiece(builders[i], s[builders[i]].sh_offset,
                        [buffer_of |-> builders[i]], s[builders[i]].buf_size)]

\* the .text piece streaming the code as well
DoActualWriteTextStreams(p, k, dook) ==
  IF p.kind = "memory"
  THEN <<[op |-> "write", piece |-> k, off |-> p.offset_, size |-> p.size_,
          ok |-> dook]>>
  ELSE <<[op |-> "SetCodeOffset", piece |-> k, off |-> p.offset_, size |-> 0,
          ok |-> TRUE],
         [op |-> "CodeOutputWrite", piece |-> k, off |-> p.offset_, size |-> 0,
          ok |-> dook]>>

\* DoActualWrite of piece k: the calls it makes on the file target and on
\* the code producer, the last of them with result dook.  A memory piece
\* writes its bytes, the .rodata piece sets the producer's code offset and
\* asks it to stream, the .text piece calls nothing.
DoActualWrite(p, k, dook) ==
  CASE p.kind = "memory" ->
         <<[op |-> "write", piece |-> k, off |-> p.offset_, size |-> p.size_,
            ok |-> dook]>>
    [] p.kind = "rodata" ->
         <<[op |-> "SetCodeOffset", piece |-> k, off |-> p.offset_, size |-> 0,
            ok |-> TRUE],
           [op |-> "CodeOutputWrite", piece |-> k, off |-> p.offset_, size |-> 0,
            ok |-> dook]>>
    [] p.kind = "text" -> <<>>

\* WriteOutFile from piece k on.  Each piece seeks to offset_
\* (ElfFilePiece::Write) and then runs its DoActualWrite; the first failure
\* returns false.  fail names the call the file target or the code producer
\* fails, if any; at is the piece that failed, 0 if none did.
RECURSIVE WriteOutFile(_, _, _, _)
WriteOutFile(pieces, k, fail, log) ==
  IF k > Len(pieces) THEN [log |-> log, ok |-> TRUE, at |-> 0]
  ELSE
    LET p      == pieces[k]
        seekok == ~(fail.piece = k /\ fail.op = "seek")
        dook   == ~(fail.piece = k /\ fail.op = "write") \/ p.kind = "text"
        log1   == Append(log, [op |-> "seek", piece |-> k, off |-> p.offset_,
                               size |-> 0, ok |-> seekok])
        log2   == log1 \o DoActualWrite(p, k, dook)
    IN  IF ~seekok THEN [log |-> log1, ok |-> FALSE, at |-> k]
        ELSE IF dook THEN WriteOutFile(pieces, k + 1, fail, log2)
        ELSE [log |-> log2, ok |-> FALSE, at |-> k]

\* The pieces in the order Write hands them to WriteOutFile: the order of
\* the push_back calls (ElfFilePiece::Compare is never used to sort them).
CommitOrder(pieces) == pieces

\* ElfFileMemoryPiece keeps its name as a reference (const std::string&
\* dbg_name_).  Write passes string literals for its own pieces, so the
\* reference is to a temporary that is gone when push_back returns; only
\* the pieces of the raw sections, named by it->GetName(), refer to a
\* string that still exists.
DanglingName(p) == p.kind = "memory" /\ p.dbg_name_ \notin RawIds

\* What a failed seek or write of piece p leads to.  The PLOG(ERROR) of the
\* failure prints the piece's name (GetDescription() for a seek, dbg_name_
\* for a write): through a dangling reference the read is undefined, the
\* process logs garbage and returns false or dies in the read.
FailureOutcomes(p) ==
  IF DanglingName(p) THEN {"false", "died"} ELSE {"false"}

\* The calls the file target or the code producer may fail.
Failures(n) ==
  {[piece |-> 0, op |-> "none"]}
  \cup [piece : 1..n, op : {"seek", "write"}]

\* Each local of Write is bound once by a quantifier over a singleton.
Write ==
  /\ phase \in {"inited", "init_failed"}
  /\ \E dbg \in {IncludingDebugSymbols(cfg, symtab_symbols_)} :
     \E strtab \in {IF dbg THEN GenerateStrtab(symtab_symbols_) ELSE <<>>} :
     \E syms \in {IF dbg THEN StrtabNameIdx(symtab_symbols_) ELSE symtab_symbols_} :
     \E st \in {SetupSections(
                  [sec |-> IF dbg THEN [sec EXCEPT !["strtab"].sh_size = Len(strtab)]
                           ELSE sec,
                   shstrtab_ |-> shstrtab_,
                   section_ptrs_ |-> section_ptrs_,
                   section_index_ |-> section_index_],
                  WriteSectionOrder(cfg, symtab_symbols_, other_builders_))} :
     \E s1 \in {WriteLayout(st.sec, cfg, symtab_symbols_, Len(strtab),
                            Len(st.shstrtab_), other_builders_)} :
     \E sections_offset \in
          {RoundUp(s1["shstrtab"].sh_offset + s1["shstrtab"].sh_size,
                   SizeofWord(cfg.elf64))} :
     \E dynsym \in {GenerateSymtab(dynsym_symbols_, s1)} :
     \E symtab \in {IF dbg THEN GenerateSymtab(syms, s1) ELSE <<>>} :
     \E dynamic \in {GetDynamics(dynamics_, s1, Len(dynstr_),
                                 dynstr_soname_offset_)} :
     \E ph \in {WriteProgramHeaders(program_headers_, s1, other_builders_)} :
     \E eh \in {WriteEhdr(elf_header_, cfg, s1, sections_offset,
                          st.section_ptrs_)} :
       IF ~(/\ Len(dynsym) * SizeofSym(cfg.elf64) = s1["dynsym"].sh_size
            /\ dbg => Len(symtab) * SizeofSym(cfg.elf64) = s1["symtab"].sh_size
            /\ Len(dynamic) * SizeofDyn(cfg.elf64) = s1["dynamic"].sh_size
            /\ EhFrameChecks(s1, other_builders_)
            /\ s1["bss"].sh_size = 0 =>
                 PH_LOAD_RW_BSS * SizeofPhdr(cfg.elf64)
                 + (PH_NUM - PH_LOAD_RW_BSS - 1) * SizeofPhdr(cfg.elf64)
                 = eh.e_phnum * SizeofPhdr(cfg.elf64))
       THEN \* a CHECK failed
            /\ phase' = "aborted"
            /\ UNCHANGED <<sec, section_ptrs_, section_index_, shstrtab_,
                           symtab_symbols_, program_headers_, elf_header_, out_,
                           pieces_, file_log, writeRet>>
       ELSE
         \E w \in {[written |-> TRUE, debug |-> dbg, dynamic |-> dynamic,
                    dynsym |-> dynsym, symtab |-> symtab, strtab |-> strtab,
                    dynstr |-> dynstr_, hash |-> hash_, shstrtab |-> st.shstrtab_,
                    sections_offset |-> sections_offset]} :
         \E pieces \in {CommitOrder(WritePieces(cfg, s1, eh, ph, w,
                                                st.section_ptrs_,
                                                other_builders_))} :
         \E fail \in Failures(Len(pieces)) :
         \E r \in {WriteOutFile(pieces, 1, fail, <<>>)} :
         \E ret \in IF r.ok THEN {"true"} ELSE FailureOutcomes(pieces[r.at]) :
           /\ phase' = IF ret = "died" THEN "aborted" ELSE "written"
           /\ sec' = s1
           /\ section_ptrs_' = st.section_ptrs_
           /\ section_index_' = st.section_index_
           /\ shstrtab_' = st.shstrtab_
           /\ symtab_symbols_' = syms
           /\ program_headers_' = ph
           /\ elf_header_' = eh
           /\ out_' = w
           /\ pieces_' = pieces
           /\ file_log' = r.log
           /\ writeRet' = IF ret = "died" THEN "none" ELSE ret
  /\ UNCHANGED <<cfg, fatal_error_, other_builders_, dynstr_,
                 dynstr_soname_offset_, hash_, dynamics_, dynsym_symbols_, initRet,
                 symbols_, gen_, dyn_, hashed_>>

----------------------------------------------------------------------------
(* Specifications.                                                         *)

\* The emitter from construction to the return of Write.
ElfSpecInit ==
  /\ ElfInit
  /\ symbols_ = <<>>
  /\ gen_ = GenNone
  /\ dyn_ = DynNone
  /\ hashed_ = HashedNone

Next ==
  \/ RegisterRawSection
  \/ AddDebugSymbol
  \/ Init
  \/ Write

Spec == ElfSpecInit /\ [][Next]_vars

\* A symbol table on its own.
SymInit ==
  /\ symbols_ = <<>>
  /\ gen_ = GenNone
  /\ phase = "idle"
  /\ cfg = [isa |-> "kArm64", elf64 |-> FALSE, rodata_size |-> 4096,
            text_size |-> 8192, bss_size |-> 0, add_symbols |-> FALSE,
            path |-> Path_rel]
  /\ fatal_error_ = FALSE
  /\ sec = MemberBuilders(cfg) @@ RawBuilders
  /\ other_builders_ = <<>>
  /\ section_ptrs_ = <<>>
  /\ section_index_ = 0
  /\ shstrtab_ = <<>>
  /\ dynstr_ = <<>>
  /\ dynstr_soname_offset_ = 0
  /\ hash_ = <<>>
  /\ dynamics_ = <<>>
  /\ dynsym_symbols_ = <<>>
  /\ symtab_symbols_ = <<>>
  /\ program_headers_ = [k \in 0..(PH_NUM - 1) |-> ZeroPhdr]
  /\ elf_header_ = SetupEhdr(cfg)
  /\ out_ = [written |-> FALSE]
  /\ pieces_ = <<>>
  /\ file_log = <<>>
  /\ initRet = "none"
  /\ writeRet = "none"
  /\ dyn_ = DynNone
  /\ hashed_ = HashedNone

SymNext ==
  \/ SymAddSymbol /\ UNCHANGED <<elfVars, dyn_, hashed_>>
  \/ SymGenerateStrtab /\ UNCHANGED <<elfVars, dyn_, hashed_>>
  \/ SymGenerateHashContents /\ UNCHANGED <<elfVars, dyn_, hashed_>>

SymSpec == SymInit /\ [][SymNext]_vars

\* GenerateHashContents as a function of the symbol list.
HashInit ==
  /\ symbols_ \in HashInputs
  /\ gen_ = GenNone
  /\ phase = "idle"
  /\ cfg = [isa |-> "kArm64", elf64 |-> FALSE, rodata_size |-> 4096,
            text_size |-> 8192, bss_size |-> 0, add_symbols |-> FALSE,
            path |-> Path_rel]
  /\ fatal_error_ = FALSE
  /\ sec = MemberBuilders(cfg) @@ RawBuilders
  /\ other_builders_ = <<>>
  /\ section_ptrs_ = <<>>
  /\ section_index_ = 0
  /\ shstrtab_ = <<>>
  /\ dynstr_ = <<>>
  /\ dynstr_soname_offset_ = 0
  /\ hash_ = <<>>
  /\ dynamics_ = <<>>
  /\ dynsym_symbols_ = <<>>
  /\ symtab_symbols_ = <<>>
  /\ program_headers_ = [k \in 0..(PH_NUM - 1) |-> ZeroPhdr]
  /\ elf_header_ = SetupEhdr(cfg)
  /\ out_ = [written |-> FALSE]
  /\ pieces_ = <<>>
  /\ file_log = <<>>
  /\ initRet = "none"
  /\ writeRet = "none"
  /\ dyn_ = DynNone
  /\ hashed_ = HashedNone

HashNext == SymGenerateHashContents /\ UNCHANGED <<elfVars, dyn_, hashed_>>

HashSpec == HashInit /\ [][HashNext]_vars

\* elfhash as a function of its argument.
ElfhashInit ==
  /\ hashed_ \in {[name |-> s, done |-> FALSE, h |-> 0] : s \in HashedInputs}
  /\ symbols_ = <<>>
  /\ gen_ = GenNone
  /\ phase = "idle"
  /\ cfg = [isa |-> "kArm64", elf64 |-> FALSE, rodata_size |-> 4096,
            text_size |-> 8192, bss_size |-> 0, add_symbols |-> FALSE,
            path |-> Path_rel]
  /\ fatal_error_ = FALSE
  /\ sec = MemberBuilders(cfg) @@ RawBuilders
  /\ other_builders_ = <<>>
  /\ section_ptrs_ = <<>>
  /\ section_index_ = 0
  /\ shstrtab_ = <<>>
  /\ dynstr_ = <<>>
  /\ dynstr_soname_offset_ = 0
  /\ hash_ = <<>>
  /\ dynamics_ = <<>>
  /\ dynsym_symbols_ = <<>>
  /\ symtab_symbols_ = <<>>
  /\ program_headers_ = [k \in 0..(PH_NUM - 1) |-> ZeroPhdr]
  /\ elf_header_ = SetupEhdr(cfg)
  /\ out_ = [written |-> FALSE]
  /\ pieces_ = <<>>
  /\ file_log = <<>>
  /\ initRet = "none"
  /\ writeRet = "none"
  /\ dyn_ = DynNone

ElfhashNext == ElfhashCall /\ UNCHANGED <<elfVars, symVars, dyn_>>

ElfhashSpec == ElfhashInit /\ [][ElfhashNext]_vars

\* A dynamic builder on its own, for ELF32 and ELF64; the sections its tags
\* may name are laid out as Init lays them out for this configuration.
DynInit ==
  /\ dynamics_ = <<>>
  /\ dyn_ = DynNone
  /\ hashed_ = HashedNone
  /\ phase = "idle"
  /\ cfg \in {c \in Configs : /\ c.isa = "kArm64" /\ c.rodata_size = 4096
                               /\ c.text_size = 8192 /\ c.bss_size = 0
                               /\ ~c.add_symbols /\ c.path = Path_rel}
  /\ fatal_error_ = FALSE
  /\ sec = [MemberBuilders(cfg) @@ RawBuilders EXCEPT
              !["hash"].sh_addr = IF cfg.elf64 THEN 592 ELSE 380]
  /\ other_builders_ = <<>>
  /\ section_ptrs_ = <<>>
  /\ section_index_ = 0
  /\ shstrtab_ = <<>>
  /\ dynstr_ = <<>>
  /\ dynstr_soname_offset_ = 0
  /\ hash_ = <<>>
  /\ dynsym_symbols_ = <<>>
  /\ symtab_symbols_ = <<>>
  /\ program_headers_ = [k \in 0..(PH_NUM - 1) |-> ZeroPhdr]
  /\ elf_header_ = SetupEhdr(cfg)
  /\ out_ = [written |-> FALSE]
  /\ pieces_ = <<>>
  /\ file_log = <<>>
  /\ initRet = "none"
  /\ writeRet = "none"
  /\ symbols_ = <<>>
  /\ gen_ = GenNone

DynNext ==
  \/ DynAddDynamicTag
  \/ DynGetSize
  \/ DynGetDynamics

DynSpec == DynInit /\ [][DynNext]_vars

----------------------------------------------------------------------------
(* The emitted file.                                                       *)

\* Write returned true: every piece was written.
Emitted == phase = "written" /\ writeRet = "true"

PiecesNamed(name) == SelectSeq(pieces_, LAMBDA p : p.dbg_name_ = name)

\* The section-header table written to the file, in file order.
EmittedShdrs ==
  LET ps == PiecesNamed("section table piece")
  IN  [i \in 1..Len(ps) |-> ps[i].data_]

EmittedEhdr == PiecesNamed("Elf Header")[1].data_

EmittedDynamic == PiecesNamed(".dynamic")[1].data_

EmittedShdrOfType(type) ==
  LET hs == SelectSeq(EmittedShdrs, LAMBDA h : h.sh_type = type)
  IN  hs[1]

RegisteredAlloc == {k \in 1..Len(other_builders_) : IsAlloc(sec, other_builders_[k])}

----------------------------------------------------------------------------
(* Claims.                                                                 *)

\* C1 (as stated): in the emitted section-header table every section whose
\* sh_flags contain SHF_ALLOC has sh_addr equal to sh_offset.
C1_AllocAddrEqualsOffset ==
  Emitted =>
    \A i \in 1..Len(EmittedShdrs) :
      "SHF_ALLOC" \in EmittedShdrs[i].sh_flags =>
        EmittedShdrs[i].sh_addr = EmittedShdrs[i].sh_offset

\* C1 (amended): every section with SHF_ALLOC other than .dynamic has
\* sh_addr equal to sh_offset; .dynamic has the sh_offset of .bss and
\* sh_addr = round_up(sh_offset + bss size, its alignment), which is its
\* sh_offset exactly when the bss size is 0.
C1_AllocAddrEqualsOffsetButDynamic ==
  Emitted =>
    /\ \A i \in 1..Len(EmittedShdrs) :
         ("SHF_ALLOC" \in EmittedShdrs[i].sh_flags
          /\ EmittedShdrs[i].sh_type # "SHT_DYNAMIC") =>
           EmittedShdrs[i].sh_addr = EmittedShdrs[i].sh_offset
    /\ LET dyn == EmittedShdrOfType("SHT_DYNAMIC")
       IN  /\ "SHF_ALLOC" \in dyn.sh_flags
           /\ dyn.sh_offset = sec["bss"].sh_offset
           /\ dyn.sh_addr = RoundUp(dyn.sh_offset + cfg.bss_size, dyn.sh_addralign)
           /\ (dyn.sh_addr = dyn.sh_offset) <=> (cfg.bss_size = 0)

C1_Witness ==
  /\ Emitted
  /\ cfg.bss_size # 0
  /\ RegisteredAlloc # {}
  /\ \E i \in 1..Len(EmittedShdrs) :
       /\ EmittedShdrs[i].sh_type = "SHT_NOBITS"
       /\ EmittedShdrs[i].sh_addr = EmittedShdrs[i].sh_offset
       /\ EmittedShdrs[i].sh_addr > 0

\* C2: in every emitted file the sh_link of .dynamic's header is the
\* section index of .dynstr.
C2_DynamicLinksDynstr ==
  Emitted =>
    EmittedShdrOfType("SHT_DYNAMIC").sh_link = sec["dynstr"].section_index_

\* C3: when two entries of symbols_ carry the same name,
\* GenerateHashContents aborts instead of returning a table.
C3_DuplicateNameAborts ==
  (gen_.hash_done /\ HasDuplicateName(symbols_)) => gen_.hash_aborted

\* C4: for pairwise distinct names GenerateHashContents returns a table in
\* which the bucket/chain walk for each symbol's name, names being read
\* from the string table at name_idx_, ends at the symbol's 1-based index.
C4_HashResolvesEverySymbol ==
  (gen_.hash_done /\ gen_.strtab_done /\ ~HasDuplicateName(symbols_)) =>
    /\ ~gen_.hash_aborted
    /\ \A i \in 1..Len(symbols_) :
         GetSym(gen_.hash, symbols_, gen_.strtab, symbols_[i].name_) = i

C4_Witness ==
  /\ gen_.hash_done /\ gen_.strtab_done /\ ~gen_.hash_aborted
  /\ ~HasDuplicateName(symbols_)
  /\ \E i, j \in 1..Len(symbols_) :
       /\ HashChain(gen_.hash, i) = j
       /\ HashChain(gen_.hash, j) # 0
  /\ \E b \in 0..(gen_.hash[1] - 1) : HashBucket(gen_.hash, b) = 0 \/ Len(symbols_) > 3

C6_WritesInOffsetOrder ==
  LET ws == SelectSeq(file_log, LAMBDA e : e.op = "write")
  IN  \A i \in 1..(Len(ws) - 1) : ws[i].off <= ws[i + 1].off

\* C7: in every emitted ELF header e_phnum is 7 if and only if the
\* configured bss size is non-zero, and 6 otherwise.
C7_PhnumSevenIffBss ==
  Emitted =>
    /\ (EmittedEhdr.e_phnum = 7) <=> (cfg.bss_size # 0)
    /\ cfg.bss_size = 0 => EmittedEhdr.e_phnum = 6

C7_Witness ==
  /\ Emitted
  /\ cfg.bss_size # 0
  /\ EmittedEhdr.e_phnum = 7
  /\ Len(PiecesNamed("Program headers")[1].data_) = 7

\* C8: after Init the section indices are null 0, .dynsym 1, .dynstr 2,
\* .hash 3, .rodata 4, .text 5, then .bss 6 and .dynamic 7 when the bss
\* size is non-zero, otherwise .dynamic 6 and no index for .bss; no
\* registered raw section has an index yet.
C8_InitSectionIndices ==
  phase = "inited" =>
    /\ section_ptrs_[1] = "null"
    /\ sec["dynsym"].section_index_ = 1 /\ section_ptrs_[2] = "dynsym"
    /\ sec["dynstr"].section_index_ = 2 /\ section_ptrs_[3] = "dynstr"
    /\ sec["hash"].section_index_ = 3   /\ section_ptrs_[4] = "hash"
    /\ sec["rodata"].section_index_ = 4 /\ section_ptrs_[5] = "rodata"
    /\ sec["text"].section_index_ = 5   /\ section_ptrs_[6] = "text"
    /\ IF cfg.bss_size # 0
       THEN /\ sec["bss"].section_index_ = 6 /\ section_ptrs_[7] = "bss"
            /\ sec["dynamic"].section_index_ = 7 /\ section_ptrs_[8] = "dynamic"
            /\ Len(section_ptrs_) = 8
       ELSE /\ sec["dynamic"].section_index_ = 6 /\ section_ptrs_[7] = "dynamic"
            /\ sec["bss"].section_index_ = 0
            /\ Len(section_ptrs_) = 7
    /\ \A k \in 1..Len(other_builders_) :
         /\ sec[other_builders_[k]].section_index_ = 0
         /\ \A i \in 1..Len(section_ptrs_) : section_ptrs_[i] # other_builders_[k]

C8_Witness ==
  /\ phase = "inited"
  /\ cfg.bss_size = 0
  /\ sec["dynamic"].section_index_ = 6
  /\ \E k \in RegisteredAlloc :
       /\ sec[other_builders_[k]].sh_offset > 0
       /\ sec[other_builders_[k]].sh_offset < sec["rodata"].sh_offset

\* The configuration of scenario S1: no bss, no raw sections, no debug symbols.
ScenarioS1 ==
  /\ cfg.bss_size = 0
  /\ other_builders_ = <<>>
  /\ ~IncludingDebugSymbols(cfg, symtab_symbols_)

\* C9 (as stated): in scenario S1 the emitted file has 6 program headers
\* and a section count of 9.
C9_S1SixPhdrsNineSections ==
  (Emitted /\ ScenarioS1) =>
    /\ EmittedEhdr.e_phnum = 6
    /\ EmittedEhdr.e_shnum = 9

\* C9 (amended): in scenario S1 the emitted file has 6 program headers and
\* a section count of 8: null, .dynsym, .dynstr, .hash, .rodata, .text,
\* .dynamic, .shstrtab.
C9_S1SixPhdrsEightSections ==
  (Emitted /\ ScenarioS1) =>
    /\ EmittedEhdr.e_phnum = 6
    /\ EmittedEhdr.e_shnum = 8
    /\ Len(EmittedShdrs) = 8
    /\ [i \in 1..8 |-> EmittedShdrs[i].sh_type] =
         <<"SHT_NULL", "SHT_DYNSYM", "SHT_STRTAB", "SHT_HASH", "SHT_PROGBITS",
           "SHT_PROGBITS", "SHT_DYNAMIC", "SHT_STRTAB">>

C9_Witness ==
  /\ Emitted /\ ScenarioS1
  /\ cfg.isa = "kArm64" /\ cfg.rodata_size = 4096 /\ cfg.text_size = 8192
  /\ EmittedEhdr.e_shnum = 8

\* C10: the emitted dynamic vector is DT_HASH, DT_STRTAB, DT_SYMTAB,
\* DT_SYMENT, DT_STRSZ, DT_SONAME, DT_NULL in that order (no caller can add
\* tags to ElfBuilder's dynamic builder); its last entry is DT_NULL with
\* value 0 and each of the six other tags occurs exactly once.
C10_DynamicVector ==
  Emitted =>
    LET d == EmittedDynamic
    IN  /\ [k \in 1..Len(d) |-> d[k].d_tag] =
             <<"DT_HASH", "DT_STRTAB", "DT_SYMTAB", "DT_SYMENT", "DT_STRSZ",
               "DT_SONAME", "DT_NULL">>
        /\ d[Len(d)] = [d_tag |-> "DT_NULL", d_un |-> 0]
        /\ \A tag \in {"DT_HASH", "DT_STRTAB", "DT_SYMTAB", "DT_SYMENT",
                       "DT_STRSZ", "DT_SONAME"} :
             Cardinality({k \in 1..Len(d) : d[k].d_tag = tag}) = 1

C10_Witness ==
  /\ Emitted
  /\ Len(EmittedDynamic) = 7
  /\ EmittedDynamic[7].d_tag = "DT_NULL"
  /\ EmittedDynamic[1].d_un = sec["hash"].sh_addr
  /\ EmittedDynamic[1].d_un > 0

\* C11: whenever Init has returned true, the end of .rodata is a multiple of
\* the page size and .text starts exactly there; with a rodata size that is
\* not a multiple of the page size Init never returns true: it aborts (the
\* run that reaches the layout is the one without the fatal flag).
C11_RodataTextPageJoint ==
  /\ initRet = "true" =>
       /\ sec["rodata"].sh_size = cfg.rodata_size
       /\ (sec["rodata"].sh_offset + sec["rodata"].sh_size) % kPageSize = 0
       /\ sec["text"].sh_offset = sec["rodata"].sh_offset + sec["rodata"].sh_size
  /\ cfg.rodata_size % kPageSize # 0 =>
       /\ initRet # "true"
       /\ (~fatal_error_ /\ phase # "constructed") => phase = "aborted"

C11_Witness ==
  /\ phase = "inited" /\ initRet = "true"
  /\ RegisteredAlloc # {}
  /\ sec["rodata"].sh_offset = kPageSize
  /\ sec["text"].sh_offset = 2 * kPageSize

\* The registered raw sections with (alloc = TRUE) or without SHF_ALLOC, in
\* registration order.
RegisteredRaw(alloc) ==
  SelectSeq(other_builders_, LAMBDA b : IsAlloc(sec, b) = alloc)

\* The two placement chains of the layout.
AllocChain ==
  <<"dynsym", "dynstr", "hash">> \o RegisteredRaw(TRUE)
  \o <<"rodata", "text", "bss">>

NonAllocChain ==
  <<"dynamic">>
  \o (IF IncludingDebugSymbols(cfg, symtab_symbols_)
      THEN <<"symtab", "strtab">> ELSE <<>>)
  \o RegisteredRaw(FALSE) \o <<"shstrtab">>

PlacedAfterPredecessor(chain) ==
  \A i \in 2..Len(chain) :
    sec[chain[i]].sh_offset =
      RoundUp(sec[chain[i - 1]].sh_offset + sec[chain[i - 1]].sh_size,
              sec[chain[i]].sh_addralign)

\* C12: in the layout of an emitted file .dynsym starts at
\* round_up(sizeof(Ehdr) + 7 * sizeof(Phdr), its alignment) and, along
\* .dynsym -> .dynstr -> .hash -> allocatable raw sections -> .rodata ->
\* .text -> .bss and along .dynamic -> [.symtab -> .strtab] ->
\* non-allocatable raw sections -> .shstrtab, each section's sh_offset is
\* round_up(end of its predecessor, its own sh_addralign).
C12_PlacementChains ==
  Emitted =>
    /\ sec["dynsym"].sh_offset =
         RoundUp(SizeofEhdr(cfg.elf64) + 7 * SizeofPhdr(cfg.elf64),
                 sec["dynsym"].sh_addralign)
    /\ PlacedAfterPredecessor(AllocChain)
    /\ PlacedAfterPredecessor(NonAllocChain)

EmittedDynstr == PiecesNamed(".dynstr")[1].data_

\* The value of the first entry of the emitted dynamic vector with that tag.
EmittedDynamicValue(tag) ==
  LET ks == {k \in 1..Len(EmittedDynamic) : EmittedDynamic[k].d_tag = tag}
  IN  EmittedDynamic[CHOOSE k \in ks : \A j \in ks : k <= j].d_un

\* name is what follows the last '/' of path (all of path without a '/').
IsBasenameOf(name, path) ==
  /\ Len(name) <= Len(path)
  /\ name = SubSeq(path, Len(path) - Len(name) + 1, Len(path))
  /\ \A i \in 1..Len(name) : name[i] # SLASH
  /\ Len(name) < Len(path) => path[Len(path) - Len(name)] = SLASH

\* C13: in every emitted file the string of .dynstr at the offset stored in
\* DT_SONAME is the output path after its last '/', it is the last string
\* of .dynstr, and DT_STRSZ is the sh_size of .dynstr, the length of its
\* contents with that string and its terminator.
C13_SonameIsBasename ==
  Emitted =>
    LET off  == EmittedDynamicValue("DT_SONAME")
        name == CStringAt(EmittedDynstr, off)
    IN  /\ IsBasenameOf(name, cfg.path)
        /\ off + Len(name) + 1 = Len(EmittedDynstr)
        /\ EmittedDynstr[Len(EmittedDynstr)] = NUL
        /\ EmittedDynamicValue("DT_STRSZ") = EmittedShdrs[3].sh_size
        /\ EmittedShdrs[3].sh_size = Len(EmittedDynstr)
        /\ CStringAt(shstrtab_, EmittedShdrs[3].sh_name) = Str_dynstr

C13_Witness ==
  /\ Emitted
  /\ cfg.path = Path_abs
  /\ EmittedDynamicValue("DT_SONAME") > 0
  /\ CStringAt(EmittedDynstr, EmittedDynamicValue("DT_SONAME")) = Path_rel

EmittedDynsym == PiecesNamed(".dynsym")[1].data_

EmittedShstrtab == PiecesNamed(".shstrtab")[1].data_

\* The index, in the emitted section-header table, of the header whose name
\* in the emitted .shstrtab is name (0 when there is none).
EmittedIndexOf(name) ==
  LET is == {i \in 2..Len(EmittedShdrs) :
               CStringAt(EmittedShstrtab, EmittedShdrs[i].sh_name) = name}
  IN  IF is = {} THEN 0 ELSE (CHOOSE i \in is : TRUE) - 1

\* C14: the emitted .dynsym is the null symbol followed by oatdata, oatexec,
\* oatlastword and, exactly when the bss size is non-zero, oatbss and
\* oatbsslastword; oatdata and oatexec (oatbss) start at the sh_offset of
\* .rodata and .text (.bss) with the section's size, the lastword symbols
\* are the 4 bytes ending at the end of .text (.bss), and st_shndx is the
\* index of the owning section in the emitted table.
C14_RequiredDynsym ==
  Emitted =>
    LET ds     == EmittedDynsym
        nm(k)  == CStringAt(EmittedDynstr, ds[k].st_name)
        rodata == EmittedShdrs[EmittedIndexOf(Str_rodata) + 1]
        text   == EmittedShdrs[EmittedIndexOf(Str_text) + 1]
    IN  /\ ds[1] = [st_name |-> 0, st_value |-> 0, st_size |-> 0,
                    st_other |-> 0, st_shndx |-> 0, st_info |-> 0]
        /\ Len(ds) = IF cfg.bss_size # 0 THEN 6 ELSE 4
        /\ \A k \in 2..Len(ds) : ds[k].st_info = 16 * 1 + 1
        /\ EmittedIndexOf(Str_rodata) # 0 /\ EmittedIndexOf(Str_text) # 0
        /\ nm(2) = Str_oatdata
        /\ ds[2].st_value = rodata.sh_offset
        /\ ds[2].st_size = cfg.rodata_size
        /\ ds[2].st_shndx = EmittedIndexOf(Str_rodata)
        /\ nm(3) = Str_oatexec
        /\ ds[3].st_value = text.sh_offset
        /\ ds[3].st_size = cfg.text_size
        /\ ds[3].st_shndx = EmittedIndexOf(Str_text)
        /\ nm(4) = Str_oatlastword
        /\ ds[4].st_value + 4 = text.sh_offset + cfg.text_size
        /\ ds[4].st_size = 4
        /\ ds[4].st_shndx = EmittedIndexOf(Str_text)
        /\ cfg.bss_size # 0 =>
             LET bss == EmittedShdrs[EmittedIndexOf(Str_bss) + 1]
             IN  /\ EmittedIndexOf(Str_bss) # 0
                 /\ nm(5) = Str_oatbss
                 /\ ds[5].st_value = bss.sh_offset
                 /\ ds[5].st_size = cfg.bss_size
                 /\ ds[5].st_shndx = EmittedIndexOf(Str_bss)
                 /\ nm(6) = Str_oatbsslastword
                 /\ ds[6].st_value + 4 = bss.sh_offset + cfg.bss_size
                 /\ ds[6].st_size = 4
                 /\ ds[6].st_shndx = EmittedIndexOf(Str_bss)

C14_Witness ==
  /\ Emitted
  /\ cfg.bss_size = 100 /\ cfg.text_size = 12
  /\ Len(EmittedDynsym) = 6
  /\ EmittedDynsym[4].st_value = 2 * kPageSize + 8
  /\ EmittedDynsym[6].st_value = 3 * kPageSize + 96
  /\ EmittedDynsym[6].st_shndx = 6

\* C15: for every header of the emitted section-header table the string of
\* the emitted .shstrtab at sh_name is the name of the header's section (the
\* empty string for the null header, ".shstrtab" for the table itself), and
\* the sh_size of .shstrtab is the length of the emitted contents, which
\* hold every name with its terminator.
C15_ShstrtabHoldsNames ==
  Emitted =>
    LET tab == EmittedShstrtab
        hs  == EmittedShdrs
        n   == Len(hs)
    IN  /\ Len(section_ptrs_) = n
        /\ \A i \in 1..n :
             /\ CStringAt(tab, hs[i].sh_name) = sec[section_ptrs_[i]].name_
             /\ hs[i].sh_name + Len(sec[section_ptrs_[i]].name_) + 1 <= Len(tab)
             /\ tab[hs[i].sh_name + Len(sec[section_ptrs_[i]].name_) + 1] = NUL
        /\ CStringAt(tab, hs[1].sh_name) = <<>>
        /\ hs[n].sh_type = "SHT_STRTAB"
        /\ CStringAt(tab, hs[n].sh_name) = Str_shstrtab
        /\ hs[n].sh_size = Len(tab)
        /\ \A k \in 1..Len(other_builders_) :
             \E i \in 2..n :
               CStringAt(tab, hs[i].sh_name) = sec[other_builders_[k]].name_

C15_Witness ==
  /\ Emitted
  /\ Len(other_builders_) = 2
  /\ IncludingDebugSymbols(cfg, symtab_symbols_)
  /\ cfg.bss_size # 0
  /\ Len(EmittedShdrs) = 13
  /\ CStringAt(EmittedShstrtab, EmittedShdrs[12].sh_name) = Str_debug_info

EmittedPhdrs ==
  PiecesNamed("Program headers")[1].data_
  \o (IF PiecesNamed("Program headers part 2") = <<>> THEN <<>>
      ELSE PiecesNamed("Program headers part 2")[1].data_)

Registered(name) == FindRawSection(sec, other_builders_, name)

\* C17: when Write has completed with a raw section named .eh_frame_hdr
\* registered, a raw section .eh_frame is registered and ends exactly where
\* .eh_frame_hdr starts, and the GNU_EH_FRAME_HDR program header (the slot
\* and the last header written) has type PT_GNU_EH_FRAME and the
\* sh_offset, sh_addr and sh_size of .eh_frame_hdr as p_offset, p_vaddr and
\* p_filesz; without such a section the slot stays PT_NULL.  Hence no
\* registration that leaves the two apart gets through Write.
C17_EhFrameHdrContiguous ==
  phase = "written" =>
    LET hdr  == Registered(Str_eh_frame_hdr)
        eh   == Registered(Str_eh_frame)
        slot == program_headers_[PH_EH_FRAME_HDR]
    IN  /\ EmittedPhdrs[Len(EmittedPhdrs)] = slot
        /\ IF hdr = "none" THEN slot.p_type = "PT_NULL"
           ELSE /\ eh # "none"
                /\ sec[eh].sh_offset + sec[eh].sh_size = sec[hdr].sh_offset
                /\ slot.p_type = "PT_GNU_EH_FRAME"
                /\ slot.p_offset = sec[hdr].sh_offset
                /\ slot.p_vaddr = sec[hdr].sh_addr
                /\ slot.p_filesz = sec[hdr].sh_size

C17_Witness ==
  /\ Emitted
  /\ other_builders_ = <<"eh_frame", "eh_frame_hdr">>
  /\ sec["eh_frame"].sh_offset > 0
  /\ sec["eh_frame_hdr"].sh_offset = sec["eh_frame"].sh_offset + 256
  /\ program_headers_[PH_EH_FRAME_HDR].p_type = "PT_GNU_EH_FRAME"
  /\ program_headers_[PH_EH_FRAME_HDR].p_filesz = 40

\* C18: in every emitted section-header table the sh_link of a header whose
\* builder has a link target is the section index of that target, and 0
\* for a builder without one.
C18_LinkIsTargetIndex ==
  Emitted =>
    \A i \in 1..Len(EmittedShdrs) :
      LET b == section_ptrs_[i]
      IN  EmittedShdrs[i].sh_link =
            IF sec[b].link_ # "none" THEN sec[sec[b].link_].section_index_ ELSE 0

\* C19: for every sequence of AddDynamicTag calls GetSize() is the number
\* of calls with a tag other than DT_NULL plus 3, GetDynamics returns a
\* vector of that length, and the sh_size stored from GetSize() is the byte
\* size of that vector.
C19_DynamicSizeIsCountPlusThree ==
  /\ DynamicGetSize(dynamics_) = dyn_.accepted + 3
  /\ dyn_.size_done =>
       dyn_.sh_size = (dyn_.accepted + 3) * SizeofDyn(cfg.elf64)
  /\ dyn_.vec_done =>
       /\ Len(dyn_.vec) = DynamicGetSize(dynamics_)
       /\ Len(dyn_.vec) * SizeofDyn(cfg.elf64) = dyn_.sh_size

C19_Witness ==
  /\ dyn_.vec_done
  /\ dyn_.calls = 3 /\ dyn_.accepted = 2
  /\ Len(dyn_.vec) = 5
  /\ dyn_.sh_size = 5 * SizeofDyn(cfg.elf64)
  /\ \E k \in 1..2 : dyn_.vec[k].d_un > 8

\* The header of the section called name in the emitted table.
EmittedShdrNamed(name) == EmittedShdrs[EmittedIndexOf(name) + 1]

\* C20: in every emitted file the values of DT_HASH, DT_STRTAB and DT_SYMTAB
\* are the sh_addr of the emitted headers of .hash, .dynstr and .dynsym,
\* and the value of DT_SYMENT is sizeof(Elf_Sym).
C20_DynamicTagsAreSectionAddresses ==
  Emitted =>
    /\ EmittedDynamicValue("DT_HASH") = EmittedShdrNamed(Str_hash).sh_addr
    /\ EmittedDynamicValue("DT_STRTAB") = EmittedShdrNamed(Str_dynstr).sh_addr
    /\ EmittedDynamicValue("DT_SYMTAB") = EmittedShdrNamed(Str_dynsym).sh_addr
    /\ EmittedDynamicValue("DT_SYMENT") = SizeofSym(cfg.elf64)

C20_Witness ==
  /\ Emitted
  /\ cfg.elf64
  /\ EmittedIndexOf(Str_hash) > 0
  /\ EmittedDynamicValue("DT_SYMTAB") > 0
  /\ EmittedDynamicValue("DT_HASH") > EmittedDynamicValue("DT_STRTAB")
  /\ EmittedDynamicValue("DT_STRTAB") > EmittedDynamicValue("DT_SYMTAB")
  /\ EmittedDynamicValue("DT_SYMENT") = 24

\* The bucket and chain cells of a returned table, in order.
HashCells(hash) == SubSeq(hash, 3, Len(hash))

\* C21: for a list of n symbols GenerateHashContents returns
\* <<nbuckets, n + 1, buckets, chain>> in which every index 1..n occurs
\* exactly once among the bucket and chain cells, 0 occurs nbuckets + 1
\* times, chain[0] is 0, and nbuckets is 2 for n < 8, 4 for n < 32, 16 for
\* n < 256 and n/32 rounded up to an even number otherwise, never 0.
C21_HashTableShape ==
  gen_.hash_done =>
    LET n       == Len(symbols_)
        hash    == gen_.hash
        cells   == HashCells(hash)
        nonzero == SelectSeq(cells, LAMBDA v : v # 0)
        q       == n \div 32
    IN  /\ ~gen_.hash_aborted
        /\ hash[1] = IF n < 8 THEN 2
                     ELSE IF n < 32 THEN 4
                     ELSE IF n < 256 THEN 16
                     ELSE IF q % 2 = 0 THEN q ELSE q + 1
        /\ hash[1] > 0
        /\ hash[2] = n + 1
        /\ Len(cells) = hash[1] + hash[2]
        /\ Len(nonzero) = n
        /\ {nonzero[k] : k \in 1..n} = 1..n
        /\ Len(cells) - Len(nonzero) = hash[1] + 1
        /\ HashChain(hash, 0) = 0

C21_Witness ==
  /\ gen_.hash_done /\ ~gen_.hash_aborted
  /\ Len(symbols_) = 290
  /\ gen_.hash[1] = 10
  /\ HasDuplicateName(symbols_)
  /\ \E i \in 1..290 : HashChain(gen_.hash, i) = 290

\* The pieces of the program-header table, in the order written.
PhdrPieces ==
  SelectSeq(pieces_, LAMBDA p : p.dbg_name_ \in {"Program headers",
                                                 "Program headers part 2"})

\* The file offset of the k-th (0-based) entry written for the table.
EmittedPhdrOffset(k) ==
  LET p1 == PhdrPieces[1]
  IN  IF k < Len(p1.data_)
      THEN p1.offset_ + k * (p1.size_ \div Len(p1.data_))
      ELSE PhdrPieces[2].offset_
           + (k - Len(p1.data_)) * (PhdrPieces[2].size_ \div Len(PhdrPieces[2].data_))

\* C22: with an empty .bss the program-header table written is the six
\* slots PHDR, LOAD-R, LOAD-RX, LOAD-RW-DYNAMIC, DYNAMIC, EH_FRAME_HDR in
\* that order, entry k at PHDR_OFFSET + k * sizeof(Elf_Phdr), the
\* LOAD-RW-BSS slot absent; otherwise it is all seven slots in positional
\* order, LOAD-RW-BSS with p_filesz 0 and p_memsz the bss size.
C22_ProgramHeaderBytes ==
  Emitted =>
    LET phsz  == SizeofPhdr(cfg.elf64)
        slots == IF cfg.bss_size = 0
                 THEN <<PH_PHDR, PH_LOAD_R__, PH_LOAD_R_X, PH_LOAD_RW_DYNAMIC,
                        PH_DYNAMIC, PH_EH_FRAME_HDR>>
                 ELSE <<PH_PHDR, PH_LOAD_R__, PH_LOAD_R_X, PH_LOAD_RW_BSS,
                        PH_LOAD_RW_DYNAMIC, PH_DYNAMIC, PH_EH_FRAME_HDR>>
    IN  /\ Len(EmittedPhdrs) = Len(slots)
        /\ \A k \in 1..Len(slots) :
             /\ EmittedPhdrs[k] = program_headers_[slots[k]]
             /\ EmittedPhdrOffset(k - 1) = SizeofEhdr(cfg.elf64) + (k - 1) * phsz
        /\ \A i \in 1..Len(PhdrPieces) :
             PhdrPieces[i].size_ = Len(PhdrPieces[i].data_) * phsz
        /\ EmittedPhdrs[1].p_type = "PT_PHDR"
        /\ EmittedPhdrs[2].p_type = "PT_LOAD" /\ EmittedPhdrs[2].p_flags = {"PF_R"}
        /\ EmittedPhdrs[3].p_type = "PT_LOAD"
        /\ EmittedPhdrs[3].p_offset = sec["text"].sh_offset
        /\ EmittedPhdrs[Len(slots) - 2].p_type = "PT_LOAD"
        /\ EmittedPhdrs[Len(slots) - 2].p_offset = sec["dynamic"].sh_offset
        /\ EmittedPhdrs[Len(slots) - 1].p_type = "PT_DYNAMIC"
        /\ EmittedPhdrs[Len(slots)].p_type \in {"PT_GNU_EH_FRAME", "PT_NULL"}
        /\ EmittedPhdrs[Len(slots)].p_type = "PT_GNU_EH_FRAME"
             <=> Registered(Str_eh_frame_hdr) # "none"
        /\ cfg.bss_size # 0 =>
             /\ EmittedPhdrs[4].p_type = "PT_LOAD"
             /\ EmittedPhdrs[4].p_offset = sec["bss"].sh_offset
             /\ EmittedPhdrs[4].p_filesz = 0
             /\ EmittedPhdrs[4].p_memsz = cfg.bss_size

\* an empty .bss, two pieces, and the last entry describing .eh_frame_hdr
C22_Witness ==
  /\ Emitted
  /\ cfg.bss_size = 0
  /\ Len(PhdrPieces) = 2
  /\ Len(EmittedPhdrs) = 6
  /\ EmittedPhdrOffset(3) = SizeofEhdr(cfg.elf64) + 3 * SizeofPhdr(cfg.elf64)
  /\ EmittedPhdrs[4].p_offset = sec["dynamic"].sh_offset
  /\ EmittedPhdrs[6].p_type = "PT_GNU_EH_FRAME"
  /\ EmittedPhdrs[6].p_filesz > 0

\* The positions of file_log holding a call named op.
LogPositions(op) == {i \in 1..Len(file_log) : file_log[i].op = op}

\* The position in pieces_ of the piece of the given kind.
PieceOfKind(kind) == CHOOSE k \in 1..Len(pieces_) : pieces_[k].kind = kind

\* C23: a Write that returns true calls SetCodeOffset once and the
\* producer's Write once: the file is seeked to the sh_offset of .rodata,
\* then SetCodeOffset is given that offset, then the producer streams; the
\* .text piece seeks to the sh_offset of .text and makes no other call.
C23_ProducerDrivenOnce ==
  Emitted =>
    /\ Cardinality(LogPositions("SetCodeOffset")) = 1
    /\ Cardinality(LogPositions("CodeOutputWrite")) = 1
    /\ \A i \in LogPositions("SetCodeOffset") :
         /\ i > 1 /\ i < Len(file_log)
         /\ file_log[i - 1].op = "seek"
         /\ file_log[i - 1].off = sec["rodata"].sh_offset
         /\ file_log[i - 1].piece = file_log[i].piece
         /\ file_log[i].off = sec["rodata"].sh_offset
         /\ file_log[i + 1].op = "CodeOutputWrite"
         /\ file_log[i + 1].ok
         /\ pieces_[file_log[i].piece].kind = "rodata"
    /\ Cardinality({k \in 1..Len(pieces_) : pieces_[k].kind = "text"}) = 1
    /\ \A i \in 1..Len(file_log) :
         file_log[i].piece = PieceOfKind("text") =>
           /\ file_log[i].op = "seek"
           /\ file_log[i].off = sec["text"].sh_offset
    /\ Cardinality({i \in 1..Len(file_log) :
                      file_log[i].piece = PieceOfKind("text")}) = 1

\* a file written in full, with the debug symbols and two raw sections
C23_Witness ==
  /\ Emitted
  /\ LogPositions("CodeOutputWrite") # {}
  /\ \E i \in LogPositions("seek") :
       /\ file_log[i].piece = PieceOfKind("text")
       /\ file_log[i].off = sec["rodata"].sh_offset + cfg.rodata_size
       /\ file_log[i].off > 4096
  /\ Len(other_builders_) = 2
  /\ cfg.add_symbols

\* The sections Init lays out: the allocatable members and every
\* registered raw section with SHF_ALLOC.
AllocLayoutIds ==
  {"dynsym", "dynstr", "hash", "rodata", "text", "bss", "dynamic"}
  \cup {other_builders_[k] : k \in RegisteredAlloc}

\* C24: a Write that follows a successful Init changes neither sh_offset,
\* sh_addr nor sh_size of .dynsym, .dynstr, .hash, the raw sections with
\* SHF_ALLOC, .rodata, .text, .bss and .dynamic, nor the section indices
\* and the part of the section list that Init assigned.
C24_WriteKeepsAllocLayout ==
  [][(phase = "inited" /\ phase' # "inited") =>
       /\ \A id \in AllocLayoutIds :
            /\ sec'[id].sh_offset = sec[id].sh_offset
            /\ sec'[id].sh_addr = sec[id].sh_addr
            /\ sec'[id].sh_size = sec[id].sh_size
       /\ \A k \in 1..Len(section_ptrs_) :
            /\ section_ptrs_'[k] = section_ptrs_[k]
            /\ sec'[section_ptrs_[k]].section_index_
                 = sec[section_ptrs_[k]].section_index_]_vars

\* after a Write that laid out .symtab, .strtab and a raw section without
\* SHF_ALLOC behind an allocatable raw section placed by Init
C24_Witness ==
  /\ Emitted
  /\ cfg.bss_size # 0
  /\ sec["symtab"].sh_offset > sec["dynamic"].sh_offset
  /\ Registered(Str_eh_frame) # "none" /\ sec["eh_frame"].sh_offset > 0
  /\ Registered(Str_debug_info) # "none"
  /\ sec["debug_info"].sh_offset > sec["strtab"].sh_offset
  /\ Len(section_ptrs_) > 10

\* The hash of the System V ABI on a 32-bit unsigned h, from byte i on:
\*   h = (h << 4) + c;  if (g = h & 0xf0000000) h ^= g >> 24;  h &= ~g;
\* h is below 2^28 after each byte, so (h << 4) + c modulo 2^32 is held as
\* top, its bits 28..31, and low, its bits 0..27.
RECURSIVE SysVHashFrom(_, _, _)
SysVHashFrom(name, i, h) ==
  IF i > Len(name) \/ name[i] = NUL THEN h
  ELSE
    LET shifted == (h % Pow2_24) * 16
        carry   == (shifted + name[i]) \div Pow2_28
        top     == ((h \div Pow2_24) + carry) % 16
        low     == (shifted + name[i]) % Pow2_28
        bits4_7 == (low \div 16) % 16
        folded  == IF top # 0
                   THEN low - bits4_7 * 16 + Xor4(bits4_7, top) * 16
                   ELSE low
    IN  SysVHashFrom(name, i + 1, folded)

\* C25: for every byte string elfhash returns what the hash of the System V
\* ABI returns for the bytes before the first NUL, and the value is below
\* 2^28.
C25_ElfhashIsSysVHash ==
  hashed_.done =>
    /\ hashed_.h = SysVHashFrom(hashed_.name, 1, 0)
    /\ hashed_.h >= 0 /\ hashed_.h < Pow2_28

\* nine bytes 0xff: bits 28..31 are set and folded back twice
C25_Witness ==
  /\ hashed_.done
  /\ hashed_.name = <<255, 255, 255, 255, 255, 255, 255, 255, 255>>
  /\ hashed_.h = 69615

\* C26: after Init and Write the section-index counter is the number of
\* collected headers, the assigned indices are pairwise distinct, the i-th
\* collected header (from 0) belongs to the section of index i and is
\* written at e_shoff + i * sizeof(Elf_Shdr), .shstrtab is the last section
\* and e_shstrndx = e_shnum - 1, and e_shnum is 7, plus 1 for a non-empty
\* .bss, plus 2 with debug symbols, plus the number of raw sections, plus 1.
C26_SectionTableIndices ==
  (phase = "written" /\ initRet = "true") =>
    /\ section_index_ = Len(section_ptrs_)
    /\ \A i, j \in 1..Len(section_ptrs_) :
         i # j => sec[section_ptrs_[i]].section_index_
                  # sec[section_ptrs_[j]].section_index_
    /\ \A i \in 1..Len(section_ptrs_) :
         sec[section_ptrs_[i]].section_index_ = i - 1
    /\ elf_header_.e_shnum = Len(section_ptrs_)
    /\ elf_header_.e_shnum
         = 7 + (IF cfg.bss_size # 0 THEN 1 ELSE 0)
             + (IF IncludingDebugSymbols(cfg, symtab_symbols_) THEN 2 ELSE 0)
             + Len(other_builders_) + 1
    /\ section_ptrs_[Len(section_ptrs_)] = "shstrtab"
    /\ elf_header_.e_shstrndx = elf_header_.e_shnum - 1
    /\ sec["shstrtab"].section_index_ = elf_header_.e_shstrndx
    /\ Emitted =>
         /\ Len(PiecesNamed("section table piece")) = EmittedEhdr.e_shnum
         /\ EmittedEhdr.e_shstrndx = EmittedEhdr.e_shnum - 1
         /\ \A i \in 1..Len(PiecesNamed("section table piece")) :
              /\ PiecesNamed("section table piece")[i].offset_
                   = EmittedEhdr.e_shoff + (i - 1) * SizeofShdr(cfg.elf64)
              /\ PiecesNamed("section table piece")[i].size_ = SizeofShdr(cfg.elf64)
              /\ \E id \in DOMAIN sec :
                   /\ sec[id].section_index_ = i - 1
                   /\ id = section_ptrs_[i]
                   /\ PiecesNamed("section table piece")[i].data_ = ShdrOf(sec[id])

\* thirteen headers: .bss, the debug symbols and two raw sections
C26_Witness ==
  /\ Emitted
  /\ cfg.bss_size # 0
  /\ IncludingDebugSymbols(cfg, symtab_symbols_)
  /\ Len(other_builders_) = 2
  /\ EmittedEhdr.e_shnum = 13
  /\ section_index_ = 13
  /\ sec["shstrtab"].section_index_ = 12
  /\ PiecesNamed("section table piece")[13].data_.sh_type = "SHT_STRTAB"

\* The PT_LOAD entries of the emitted program-header table, in table order.
EmittedLoads == SelectSeq(EmittedPhdrs, LAMBDA ph : ph.p_type = "PT_LOAD")

\* C27: in every emitted file the PT_LOAD entries have non-decreasing
\* p_vaddr in table order and pairwise disjoint ranges
\* [p_vaddr, p_vaddr + p_memsz): the read-only segment ends at or before the
\* sh_offset of .text, the executable one at or before the sh_offset of
\* .bss, and the bss range at or before the sh_addr of .dynamic.
C27_LoadSegmentsOrdered ==
  Emitted =>
    /\ Len(EmittedLoads) = IF cfg.bss_size # 0 THEN 4 ELSE 3
    /\ \A i, j \in 1..Len(EmittedLoads) :
         i < j =>
           /\ EmittedLoads[i].p_vaddr <= EmittedLoads[j].p_vaddr
           /\ EmittedLoads[i].p_vaddr + EmittedLoads[i].p_memsz
                <= EmittedLoads[j].p_vaddr
    /\ EmittedLoads[1].p_vaddr + EmittedLoads[1].p_memsz
         <= EmittedShdrNamed(Str_text).sh_offset
    /\ EmittedLoads[2].p_vaddr = EmittedShdrNamed(Str_text).sh_offset
    /\ EmittedLoads[2].p_vaddr + EmittedLoads[2].p_memsz <= sec["bss"].sh_offset
    /\ sec["bss"].sh_offset + sec["bss"].sh_size
         <= EmittedShdrNamed(Str_dynamic).sh_addr
    /\ EmittedLoads[Len(EmittedLoads)].p_vaddr = EmittedShdrNamed(Str_dynamic).sh_addr
    /\ cfg.bss_size # 0 =>
         /\ EmittedLoads[3].p_vaddr = EmittedShdrNamed(Str_bss).sh_offset
         /\ EmittedLoads[3].p_memsz = cfg.bss_size

\* four segments, the bss range shorter than a page before .dynamic
C27_Witness ==
  /\ Emitted
  /\ Len(EmittedLoads) = 4
  /\ EmittedLoads[3].p_memsz = 100
  /\ EmittedLoads[4].p_vaddr = EmittedLoads[3].p_vaddr + 4096
  /\ EmittedLoads[2].p_vaddr + EmittedLoads[2].p_memsz < EmittedLoads[3].p_vaddr
  /\ EmittedLoads[1].p_memsz = EmittedLoads[2].p_vaddr

\* The number of bytes piece p puts into the file from its offset_ on: a
\* memory piece its size_, the .rodata piece what the code producer streams,
\* taken to be the sizes of .rodata and .text, the .text piece nothing.
PieceLength(p) ==
  CASE p.kind = "memory" -> p.size_
    [] p.kind = "rodata" -> cfg.rodata_size + cfg.text_size
    [] p.kind = "text"   -> 0

\* Every registered raw section with SHF_ALLOC was registered when Init ran:
\* Init stored the size of its buffer in sh_size.
AllocRawSeenByInit ==
  \A k \in RegisteredAlloc :
    sec[other_builders_[k]].sh_size = sec[other_builders_[k]].buf_size

\* C28: when every raw section was registered before Init, the byte ranges
\* [offset, offset + length) of the non-empty pieces of an emitted file are
\* pairwise disjoint.
C28_PiecesDisjoint ==
  (Emitted /\ AllocRawSeenByInit) =>
    \A i, j \in 1..Len(pieces_) :
      (i < j /\ PieceLength(pieces_[i]) > 0 /\ PieceLength(pieces_[j]) > 0) =>
        \/ pieces_[i].offset_ + PieceLength(pieces_[i]) <= pieces_[j].offset_
        \/ pieces_[j].offset_ + PieceLength(pieces_[j]) <= pieces_[i].offset_

\* a file with .bss, debug symbols, an allocatable raw section placed by
\* Init and one without SHF_ALLOC placed by Write
C28_Witness ==
  /\ Emitted /\ AllocRawSeenByInit
  /\ cfg.bss_size # 0
  /\ cfg.elf64
  /\ IncludingDebugSymbols(cfg, symtab_symbols_)
  /\ Registered(Str_eh_frame) # "none" /\ Registered(Str_debug_info) # "none"
  /\ sec["eh_frame"].sh_offset > 0
  /\ Len(pieces_) = 26
  /\ \A i \in 1..Len(pieces_) : pieces_[i].kind # "text" => PieceLength(pieces_[i]) > 0

\* The pieces of the registered raw sections, named by their builders.
RawPieces == SelectSeq(pieces_, LAMBDA p : p.dbg_name_ \in RawIds)

\* C29: whenever the raw sections were registered, before or after Init,
\* each of them has one piece in an emitted file, written at the section's
\* sh_offset, which is at or beyond the end of the program headers and not
\* 0, and the section's sh_size is the size of its buffer.
C29_RawSectionsLaidOut ==
  Emitted =>
    /\ Len(RawPieces) = Len(other_builders_)
    /\ \A k \in 1..Len(RawPieces) :
         LET p  == RawPieces[k]
             id == other_builders_[k]
         IN  /\ p.dbg_name_ = id
             /\ p.offset_ = sec[id].sh_offset
             /\ p.size_ = sec[id].buf_size
             /\ sec[id].sh_size = sec[id].buf_size
             /\ p.offset_ # 0
             /\ p.offset_ >= SizeofEhdr(cfg.elf64)
                              + EmittedEhdr.e_phnum * SizeofPhdr(cfg.elf64)

\* C30: in every emitted file the PT_PHDR entry has p_filesz and p_memsz
\* equal to e_phnum * e_phentsize, the size of the table that is written,
\* with seven entries and with six.
C30_PhdrDescribesTable ==
  Emitted =>
    /\ EmittedPhdrs[1].p_type = "PT_PHDR"
    /\ EmittedPhdrs[1].p_filesz = EmittedEhdr.e_phnum * EmittedEhdr.e_phentsize
    /\ EmittedPhdrs[1].p_memsz = EmittedEhdr.e_phnum * EmittedEhdr.e_phentsize

====
